---- MODULE Spec2Model ----
(***************************************************************************)
(* 3I-ATLAS monitor: the ingestion pipeline (fetch, dedupe, categorize,    *)
(* score, persist) of server/dataCollector.ts and server/apiDataFetcher.ts *)
(* as a state machine, with the two versions of categorizeArticle and the  *)
(* credibility scorer as operators over character sequences and            *)
(* hundredths; and the notification service (preferences, filter engine,   *)
(* quiet hours, notification rows) of the second half of                   *)
(* server/dataCollectionScheduler.ts; the scheduler of its first half; the *)
(* analysis engine of server/analysisEngine.ts; and the queries of         *)
(* server/db.ts.                                                           *)
(***************************************************************************)
EXTENDS Integers, Sequences, FiniteSets, TLC

VARIABLES
    dbAvailable,   \* getDb() # null: DATABASE_URL is configured (db.ts:9-19)
    sourcesTbl,    \* the sources table, in primary-key order (schema.ts:26-39)
    articlesTbl,   \* the articles table, in primary-key order (schema.ts:47-61)
    run,           \* the invocations of collectData / initializeDefaultSources: their
                   \* position, locals, and what each fetched, tried and inserted
    fetchSt,       \* one fetchAllArticles call: the five adapter promises and the result
    cls,           \* the last categorizeArticle call: which version, its input, its result
    score,         \* the last calculateCredibilityScore call: its input and its result
    prefsTbl,      \* the notificationPreferences table (0002_dry_molly_hayes.sql:1-20)
    notifTbl,      \* the notifications table (0002_dry_molly_hayes.sql:22-39)
    clock,         \* the server's local time of day, hours and minutes
    svc,           \* the running calls of the notification service, per caller
    tr,            \* the last isWithinTimeRange call: its input and its result
    gate,          \* the last shouldSendNotification call: its input and its result
    scheduledJobs, \* the module variable scheduledJobs (dataCollectionScheduler.ts:12)
    cronJobs,      \* the jobs cron.schedule has created, stopped or not
    timers,        \* the pending setTimeout timers of initializeScheduler
    schedLog,      \* what the cron callbacks and the timer callbacks have started
    schedCalls,    \* the calls of initializeScheduler and stopScheduler so far
    claimsTbl,     \* the claims table (schema.ts:69-78)
    contradictionsTbl,  \* the contradictions table (schema.ts:102-110)
    analysisResultsTbl, \* the analysisResults table (schema.ts:86-94)
    eng,           \* one runFullAnalysisPipeline call: its position and locals
    det,           \* one detectContradictions call: its position and locals
    qry            \* the last call of a query of db.ts: its input and its outcome

pipeVars == <<dbAvailable, sourcesTbl, articlesTbl, run>>
notifyVars == <<prefsTbl, notifTbl, clock, svc, tr, gate>>
schedVars == <<scheduledJobs, cronJobs, timers, schedLog, schedCalls>>
analysisVars == <<claimsTbl, contradictionsTbl, analysisResultsTbl, eng, det>>
otherVars == <<schedVars, analysisVars, qry>>
baseVars == <<fetchSt, cls, score, notifyVars>>
vars == <<dbAvailable, sourcesTbl, articlesTbl, run, fetchSt, cls, score,
          prefsTbl, notifTbl, clock, svc, tr, gate, otherVars>>

(***************************************************************************)
(* Texts are sequences of one-character strings, so that toLowerCase and   *)
(* String.prototype.includes are computed, not assumed.                    *)
(***************************************************************************)
\* titles of the tests, of the spec's examples and of the fixed adapter records
TitleText ==
       ("tChina" :> <<"C","h","i","n","a"," ","r","e","l","e","a","s","e","s"," ","t","r","a","j","e","c","t","o","r","y"," ","d","a","t","a">>)
    @@ ("tDebunkT" :> <<"N","A","S","A"," ","d","e","b","u","n","k","s"," ","t","r","a","j","e","c","t","o","r","y"," ","r","u","m","o","r">>)
    @@ ("tTraj" :> <<"N","e","w"," ","T","r","a","j","e","c","t","o","r","y"," ","A","n","a","l","y","s","i","s">>)
    @@ ("tChem" :> <<"C","h","e","m","i","c","a","l"," ","C","o","m","p","o","s","i","t","i","o","n"," ","S","t","u","d","y">>)
    @@ ("tActivity" :> <<"C","o","m","e","t"," ","A","c","t","i","v","i","t","y"," ","I","n","c","r","e","a","s","e","s">>)
    @@ ("tOfficial" :> <<"N","A","S","A"," ","O","f","f","i","c","i","a","l"," ","S","t","a","t","e","m","e","n","t">>)
    @@ ("tHubble" :> <<"N","e","w"," ","D","i","s","c","o","v","e","r","y"," ","f","r","o","m"," ","H","u","b","b","l","e">>)
    @@ ("tSpec" :> <<"S","p","e","c","u","l","a","t","i","o","n"," ","A","b","o","u","t"," ","O","r","i","g","i","n","s">>)
    @@ ("tDebunkF" :> <<"D","e","b","u","n","k","i","n","g"," ","F","a","l","s","e"," ","C","l","a","i","m","s">>)
    @@ ("tAgency" :> <<"C","h","i","n","a"," ","S","p","a","c","e"," ","A","g","e","n","c","y"," ","R","e","p","o","r","t">>)
    @@ ("tTimeline" :> <<"C","o","m","e","t"," ","D","i","s","c","o","v","e","r","y"," ","T","i","m","e","l","i","n","e">>)
    @@ ("tRandom" :> <<"R","a","n","d","o","m"," ","A","r","t","i","c","l","e">>)
    @@ ("tNasaPage" :> <<"N","A","S","A"," ","3","I","/","A","T","L","A","S"," ","O","f","f","i","c","i","a","l"," ","P","a","g","e">>)
    @@ ("tSeti" :> <<"S","E","T","I"," ","I","n","s","t","i","t","u","t","e"," ","-"," ","B","r","e","a","k","t","h","r","o","u","g","h"," ","L","i","s","t","e","n"," ","O","b","s","e","r","v","a","t","i","o","n","s"," ","o","f"," ","3","I","/","A","T","L","A","S">>)
    @@ ("tDetails" :> <<"M","o","r","e"," ","D","E","T","A","I","L","S">>)
    @@ ("tIndiana" :> <<"I","n","d","i","a","n","a"," ","s","k","y">>)
    @@ ("tEmpty" :> <<>>)

\* descriptions and test contents
ContentText ==
       ("cIntl" :> <<"i","n","t","e","r","n","a","t","i","o","n","a","l"," ","a","n","a","l","y","s","i","s">>)
    @@ ("cOrbit" :> <<"o","r","b","i","t"," ","p","a","t","h"," ","a","n","a","l","y","s","i","s">>)
    @@ ("cTraj" :> <<"T","h","e"," ","c","o","m","e","t","'","s"," ","o","r","b","i","t"," ","s","h","o","w","s"," ","s","i","g","n","i","f","i","c","a","n","t"," ","c","h","a","n","g","e","s"," ","i","n"," ","i","t","s"," ","t","r","a","j","e","c","t","o","r","y"," ","p","a","t","h">>)
    @@ ("cJwst" :> <<"J","W","S","T"," ","o","b","s","e","r","v","a","t","i","o","n","s"," ","r","e","v","e","a","l"," ","w","a","t","e","r"," ","i","c","e"," ","a","n","d"," ","c","a","r","b","o","n"," ","d","i","o","x","i","d","e"," ","i","n"," ","t","h","e"," ","c","o","m","e","t"," ","c","o","m","p","o","s","i","t","i","o","n">>)
    @@ ("cOutgas" :> <<"T","h","e"," ","o","u","t","g","a","s","s","i","n","g"," ","a","c","t","i","v","i","t","y"," ","a","n","d"," ","t","a","i","l"," ","d","e","v","e","l","o","p","m","e","n","t"," ","h","a","v","e"," ","i","n","c","r","e","a","s","e","d"," ","s","i","g","n","i","f","i","c","a","n","t","l","y">>)
    @@ ("cGov" :> <<"T","h","e"," ","g","o","v","e","r","n","m","e","n","t"," ","h","a","s"," ","r","e","l","e","a","s","e","d"," ","a","n"," ","o","f","f","i","c","i","a","l"," ","s","t","a","t","e","m","e","n","t"," ","a","b","o","u","t"," ","t","h","e"," ","c","o","m","e","t">>)
    @@ ("cTelescope" :> <<"T","e","l","e","s","c","o","p","e"," ","o","b","s","e","r","v","a","t","i","o","n","s"," ","r","e","v","e","a","l"," ","n","e","w"," ","i","n","f","o","r","m","a","t","i","o","n"," ","a","b","o","u","t"," ","t","h","e"," ","c","o","m","e","t">>)
    @@ ("cTheories" :> <<"S","o","m","e"," ","t","h","e","o","r","i","e","s"," ","s","u","g","g","e","s","t"," ","t","h","e"," ","c","o","m","e","t"," ","c","o","u","l","d"," ","h","a","v","e"," ","o","r","i","g","i","n","a","t","e","d"," ","f","r","o","m"," ","a"," ","s","p","e","c","i","f","i","c"," ","r","e","g","i","o","n">>)
    @@ ("cDebunks" :> <<"T","h","i","s"," ","a","r","t","i","c","l","e"," ","d","e","b","u","n","k","s"," ","t","h","e"," ","f","a","l","s","e"," ","c","l","a","i","m","s"," ","a","b","o","u","t"," ","t","h","e"," ","c","o","m","e","t"," ","b","e","i","n","g"," ","a","r","t","i","f","i","c","i","a","l">>)
    @@ ("cChinaAn" :> <<"C","h","i","n","a"," ","h","a","s"," ","r","e","l","e","a","s","e","d"," ","i","t","s"," ","a","n","a","l","y","s","i","s"," ","o","f"," ","t","h","e"," ","c","o","m","e","t"," ","o","b","s","e","r","v","a","t","i","o","n","s">>)
    @@ ("cTimeline" :> <<"H","e","r","e"," ","i","s"," ","t","h","e"," ","t","i","m","e","l","i","n","e"," ","o","f"," ","s","i","g","n","i","f","i","c","a","n","t"," ","e","v","e","n","t","s"," ","i","n"," ","t","h","e"," ","c","o","m","e","t"," ","d","i","s","c","o","v","e","r","y">>)
    @@ ("cNoMatch" :> <<"T","h","i","s"," ","a","r","t","i","c","l","e"," ","d","o","e","s"," ","n","o","t"," ","m","a","t","c","h"," ","a","n","y"," ","s","p","e","c","i","f","i","c"," ","c","a","t","e","g","o","r","y">>)
    @@ ("cRefute" :> <<"S","c","i","e","n","t","i","s","t","s"," ","r","e","f","u","t","e"," ","i","t">>)
    @@ ("cIncorrect" :> <<"A","n"," ","i","n","c","o","r","r","e","c","t"," ","e","l","e","m","e","n","t">>)
    @@ ("cChrono" :> <<"C","h","r","o","n","o","l","o","g","y"," ","o","f"," ","a"," ","t","h","e","o","r","y">>)
    @@ ("cRussia" :> <<"R","u","s","s","i","a"," ","a","n","d"," ","J","a","p","a","n">>)
    @@ ("cNasaPage" :> <<"O","f","f","i","c","i","a","l"," ","N","A","S","A"," ","i","n","f","o","r","m","a","t","i","o","n"," ","a","b","o","u","t"," ","t","h","e"," ","i","n","t","e","r","s","t","e","l","l","a","r"," ","c","o","m","e","t"," ","3","I","/","A","T","L","A","S">>)
    @@ ("cSeti" :> <<"S","E","T","I"," ","I","n","s","t","i","t","u","t","e"," ","o","b","s","e","r","v","a","t","i","o","n","s"," ","s","e","a","r","c","h","i","n","g"," ","f","o","r"," ","t","e","c","h","n","o","s","i","g","n","a","t","u","r","e","s">>)
    @@ ("cChinaAg" :> <<"C","h","i","n","a"," ","h","a","s"," ","r","e","l","e","a","s","e","d"," ","i","t","s"," ","a","n","a","l","y","s","i","s"," ","o","f"," ","t","h","e"," ","c","o","m","e","t"," ","o","b","s","e","r","v","a","t","i","o","n","s"," ","f","r","o","m"," ","t","h","e","i","r"," ","s","p","a","c","e"," ","a","g","e","n","c","y">>)
    @@ ("cSpecOrig" :> <<"S","o","m","e"," ","t","h","e","o","r","i","e","s"," ","s","u","g","g","e","s","t"," ","t","h","e"," ","c","o","m","e","t"," ","c","o","u","l","d"," ","h","a","v","e"," ","o","r","i","g","i","n","a","t","e","d"," ","f","r","o","m"," ","a"," ","s","p","e","c","i","f","i","c"," ","r","e","g","i","o","n","."," ","T","h","i","s"," ","i","s"," ","s","p","e","c","u","l","a","t","i","o","n"," ","a","b","o","u","t"," ","t","h","e"," ","o","r","i","g","i","n">>)
    @@ ("cEmpty" :> <<>>)

\* the keywords the two classifiers look for
Kw ==
       ("debunk" :> <<"d","e","b","u","n","k">>)
    @@ ("false" :> <<"f","a","l","s","e">>)
    @@ ("incorrect" :> <<"i","n","c","o","r","r","e","c","t">>)
    @@ ("refute" :> <<"r","e","f","u","t","e">>)
    @@ ("timeline" :> <<"t","i","m","e","l","i","n","e">>)
    @@ ("chronology" :> <<"c","h","r","o","n","o","l","o","g","y">>)
    @@ ("sequence" :> <<"s","e","q","u","e","n","c","e">>)
    @@ ("china" :> <<"c","h","i","n","a">>)
    @@ ("russia" :> <<"r","u","s","s","i","a">>)
    @@ ("japan" :> <<"j","a","p","a","n">>)
    @@ ("india" :> <<"i","n","d","i","a">>)
    @@ ("international" :> <<"i","n","t","e","r","n","a","t","i","o","n","a","l">>)
    @@ ("trajectory" :> <<"t","r","a","j","e","c","t","o","r","y">>)
    @@ ("orbit" :> <<"o","r","b","i","t">>)
    @@ ("path" :> <<"p","a","t","h">>)
    @@ ("composition" :> <<"c","o","m","p","o","s","i","t","i","o","n">>)
    @@ ("chemical" :> <<"c","h","e","m","i","c","a","l">>)
    @@ ("element" :> <<"e","l","e","m","e","n","t">>)
    @@ ("analysis" :> <<"a","n","a","l","y","s","i","s">>)
    @@ ("activity" :> <<"a","c","t","i","v","i","t","y">>)
    @@ ("outgassing" :> <<"o","u","t","g","a","s","s","i","n","g">>)
    @@ ("tail" :> <<"t","a","i","l">>)
    @@ ("government" :> <<"g","o","v","e","r","n","m","e","n","t">>)
    @@ ("statement" :> <<"s","t","a","t","e","m","e","n","t">>)
    @@ ("official" :> <<"o","f","f","i","c","i","a","l">>)
    @@ ("speculation" :> <<"s","p","e","c","u","l","a","t","i","o","n">>)
    @@ ("theory" :> <<"t","h","e","o","r","y">>)
    @@ ("claim" :> <<"c","l","a","i","m">>)
    @@ ("discovery" :> <<"d","i","s","c","o","v","e","r","y">>)
    @@ ("observation" :> <<"o","b","s","e","r","v","a","t","i","o","n">>)
    @@ ("telescope" :> <<"t","e","l","e","s","c","o","p","e">>)

\* the letters toLowerCase changes
LowerOf ==
       ("A" :> "a")
    @@ ("B" :> "b")
    @@ ("C" :> "c")
    @@ ("D" :> "d")
    @@ ("E" :> "e")
    @@ ("F" :> "f")
    @@ ("G" :> "g")
    @@ ("H" :> "h")
    @@ ("I" :> "i")
    @@ ("J" :> "j")
    @@ ("K" :> "k")
    @@ ("L" :> "l")
    @@ ("M" :> "m")
    @@ ("N" :> "n")
    @@ ("O" :> "o")
    @@ ("P" :> "p")
    @@ ("Q" :> "q")
    @@ ("R" :> "r")
    @@ ("S" :> "s")
    @@ ("T" :> "t")
    @@ ("U" :> "u")
    @@ ("V" :> "v")
    @@ ("W" :> "w")
    @@ ("X" :> "x")
    @@ ("Y" :> "y")
    @@ ("Z" :> "z")

Titles == DOMAIN TitleText
Contents == DOMAIN ContentText

\* String.prototype.toLowerCase on the characters the catalogue uses
toLowerCase(text) ==
    [i \in 1..Len(text) |-> IF text[i] \in DOMAIN LowerOf THEN LowerOf[text[i]] ELSE text[i]]

\* String.prototype.includes: kw occurs in text as a contiguous substring
includes(text, kw) ==
    \E i \in 1..(Len(text) - Len(kw) + 1) :
        \A j \in 1..Len(kw) : text[i + j - 1] = kw[j]

\* the template literal `${a} ${b}`
Joined(a, b) == a \o <<" ">> \o b

(***************************************************************************)
(* The classifier, two versions.                                           *)
(***************************************************************************)
Categories ==
    {"trajectory", "composition", "activity", "government_statement",
     "scientific_discovery", "speculation", "debunking",
     "international_perspective", "timeline_event", "other"}

\* a variant of the two-argument classifier that tests the trajectory rule first
categorizeArticle2_TrajectoryFirst(title, content) ==
    LET text == toLowerCase(Joined(title, content)) IN
    IF includes(text, Kw["trajectory"]) \/ includes(text, Kw["orbit"]) \/ includes(text, Kw["path"])
    THEN "trajectory"
    ELSE IF includes(text, Kw["debunk"]) \/ includes(text, Kw["false"]) \/ includes(text, Kw["incorrect"])
    THEN "debunking"
    ELSE IF includes(text, Kw["timeline"]) \/ includes(text, Kw["chronology"]) \/ includes(text, Kw["sequence"])
    THEN "timeline_event"
    ELSE IF includes(text, Kw["china"]) \/ includes(text, Kw["russia"]) \/ includes(text, Kw["japan"])
            \/ includes(text, Kw["india"]) \/ includes(text, Kw["international"])
    THEN "international_perspective"
    ELSE IF includes(text, Kw["composition"]) \/ includes(text, Kw["chemical"]) \/ includes(text, Kw["element"])
    THEN "composition"
    ELSE IF includes(text, Kw["activity"]) \/ includes(text, Kw["outgassing"]) \/ includes(text, Kw["tail"])
    THEN "activity"
    ELSE IF includes(text, Kw["government"]) \/ includes(text, Kw["statement"]) \/ includes(text, Kw["official"])
    THEN "government_statement"
    ELSE IF includes(text, Kw["speculation"]) \/ includes(text, Kw["theory"]) \/ includes(text, Kw["claim"])
    THEN "speculation"
    ELSE IF includes(text, Kw["discovery"]) \/ includes(text, Kw["observation"]) \/ includes(text, Kw["telescope"])
    THEN "scientific_discovery"
    ELSE "other"

\* categorizeArticle(title, content), "with priority ordering"
categorizeArticle2(title, content) ==
    LET text == toLowerCase(Joined(title, content)) IN
    IF includes(text, Kw["debunk"]) \/ includes(text, Kw["false"]) \/ includes(text, Kw["incorrect"])
    THEN "debunking"
    ELSE IF includes(text, Kw["timeline"]) \/ includes(text, Kw["chronology"]) \/ includes(text, Kw["sequence"])
    THEN "timeline_event"
    ELSE IF includes(text, Kw["china"]) \/ includes(text, Kw["russia"]) \/ includes(text, Kw["japan"])
            \/ includes(text, Kw["india"]) \/ includes(text, Kw["international"])
    THEN "international_perspective"
    ELSE IF includes(text, Kw["trajectory"]) \/ includes(text, Kw["orbit"]) \/ includes(text, Kw["path"])
    THEN "trajectory"
    ELSE IF includes(text, Kw["composition"]) \/ includes(text, Kw["chemical"]) \/ includes(text, Kw["element"])
    THEN "composition"
    ELSE IF includes(text, Kw["activity"]) \/ includes(text, Kw["outgassing"]) \/ includes(text, Kw["tail"])
    THEN "activity"
    ELSE IF includes(text, Kw["government"]) \/ includes(text, Kw["statement"]) \/ includes(text, Kw["official"])
    THEN "government_statement"
    ELSE IF includes(text, Kw["speculation"]) \/ includes(text, Kw["theory"]) \/ includes(text, Kw["claim"])
    THEN "speculation"
    ELSE IF includes(text, Kw["discovery"]) \/ includes(text, Kw["observation"]) \/ includes(text, Kw["telescope"])
    THEN "scientific_discovery"
    ELSE "other"

\* a variant of the one-argument classifier that tests the debunking rule first
categorizeArticle_DebunkFirst(text) ==
    LET lowerText == toLowerCase(text) IN
    IF includes(lowerText, Kw["debunk"]) \/ includes(lowerText, Kw["false"]) \/ includes(lowerText, Kw["refute"])
    THEN "debunking"
    ELSE IF includes(lowerText, Kw["trajectory"]) \/ includes(lowerText, Kw["orbit"]) \/ includes(lowerText, Kw["path"])
    THEN "trajectory"
    ELSE IF includes(lowerText, Kw["composition"]) \/ includes(lowerText, Kw["chemical"]) \/ includes(lowerText, Kw["analysis"])
    THEN "composition"
    ELSE IF includes(lowerText, Kw["activity"]) \/ includes(lowerText, Kw["outgassing"]) \/ includes(lowerText, Kw["tail"])
    THEN "activity"
    ELSE IF includes(lowerText, Kw["government"]) \/ includes(lowerText, Kw["statement"]) \/ includes(lowerText, Kw["official"])
    THEN "government_statement"
    ELSE IF includes(lowerText, Kw["speculation"]) \/ includes(lowerText, Kw["theory"]) \/ includes(lowerText, Kw["claim"])
    THEN "speculation"
    ELSE IF includes(lowerText, Kw["discovery"]) \/ includes(lowerText, Kw["observation"]) \/ includes(lowerText, Kw["telescope"])
    THEN "scientific_discovery"
    ELSE "other"

\* categorizeArticle(text), the version collectData calls
categorizeArticle(text) ==
    LET lowerText == toLowerCase(text) IN
    IF includes(lowerText, Kw["trajectory"]) \/ includes(lowerText, Kw["orbit"]) \/ includes(lowerText, Kw["path"])
    THEN "trajectory"
    ELSE IF includes(lowerText, Kw["composition"]) \/ includes(lowerText, Kw["chemical"]) \/ includes(lowerText, Kw["analysis"])
    THEN "composition"
    ELSE IF includes(lowerText, Kw["activity"]) \/ includes(lowerText, Kw["outgassing"]) \/ includes(lowerText, Kw["tail"])
    THEN "activity"
    ELSE IF includes(lowerText, Kw["government"]) \/ includes(lowerText, Kw["statement"]) \/ includes(lowerText, Kw["official"])
    THEN "government_statement"
    ELSE IF includes(lowerText, Kw["debunk"]) \/ includes(lowerText, Kw["false"]) \/ includes(lowerText, Kw["refute"])
    THEN "debunking"
    ELSE IF includes(lowerText, Kw["speculation"]) \/ includes(lowerText, Kw["theory"]) \/ includes(lowerText, Kw["claim"])
    THEN "speculation"
    ELSE IF includes(lowerText, Kw["discovery"]) \/ includes(lowerText, Kw["observation"]) \/ includes(lowerText, Kw["telescope"])
    THEN "scientific_discovery"
    ELSE "other"

\* categorizeArticle(`${title} ${description}`) for every catalogued text,
\* computed once
JoinedCategory ==
    [t \in Titles, c \in Contents |-> categorizeArticle(Joined(TitleText[t], ContentText[c]))]

(***************************************************************************)
(* The credibility scorer.  Scores are hundredths (decimal(3,2) columns);  *)
(* products are ten-thousandths.                                           *)
(***************************************************************************)
\* sources.credibilityScore values in [0,1]
Priors == 0..100

\* Bases whose IEEE-754 product base * 0.7 * 100 lies just below a half
\* (0.35 * 0.7 = 0.24499999999999997, ...), so that Math.round rounds it down.
BelowHalf == {35, 65, 75, 95}

\* Math.round(score * 100) / 100, of a score given in ten-thousandths
roundHundredths(category, base, x) ==
    IF category = "speculation" /\ base \in BelowHalf /\ x % 100 = 50
    THEN x \div 100
    ELSE (x + 50) \div 100

Min(a, b) == IF a <= b THEN a ELSE b
Max(a, b) == IF a >= b THEN a ELSE b

\* lines 204-214: from the source row's prior to the rounded score
adjustedScore(prior, category) ==
    LET base == IF prior = 0 THEN 50 ELSE prior   \* parseFloat(..) || 0.5
        x == IF category = "scientific_discovery" THEN Min(base * 110, 10000)
             ELSE IF category = "speculation" THEN Max(base * 70, 1000)
             ELSE IF category = "debunking" THEN Min(base * 105, 10000)
             ELSE base * 100
    IN roundHundredths(category, base, x)

\* select().from(sources).where(eq(sources.id, sourceId)).limit(1)
SourceById(tbl, sourceId) == {i \in 1..Len(tbl) : tbl[i].id = sourceId}

calculateCredibilityScore(dbOk, tbl, sourceId, category) ==
    IF ~dbOk THEN 50
    ELSE IF SourceById(tbl, sourceId) = {} THEN 50
    ELSE adjustedScore(tbl[CHOOSE i \in SourceById(tbl, sourceId) : TRUE].credibilityScore, category)

(***************************************************************************)
(* The aggregator: five fetch adapters and fetchAllArticles.               *)
(***************************************************************************)
\* the order of the array given to Promise.allSettled
Adapters == <<"newsAPI", "spaceflight", "nasaAPI", "nasaPage", "seti">>
AdapterSet == {Adapters[i] : i \in 1..Len(Adapters)}

Art(u, s, t, d, p) == [url |-> u, source |-> s, title |-> t, description |-> d, publishedAt |-> p]

\* Records the providers can return.  u1 is reported by two providers with
\* different titles, sources and timestamps; timestamps are parsable dates.
aChinaNews   == Art("u1", "Space.com", "tChina", "cIntl", 2)
aChinaSpace  == Art("u1", "NASA", "tDebunkT", "cOrbit", 1)
aChinaOld    == Art("u1", "Space.com", "tAgency", "cChinaAn", 1)
aHubble      == Art("u2", "Space.com", "tHubble", "cTelescope", 1)
aTimeline    == Art("u3", "SpaceNews", "tTimeline", "cTimeline", 3)
aApod        == Art("apod", "NASA - APOD", "tActivity", "cOutgas", 1)
aNasaPage    == Art("nasaPage", "NASA", "tNasaPage", "cNasaPage", 3)
aSeti        == Art("setiNews", "SETI Institute", "tSeti", "cSeti", 3)

\* What one call of an adapter can end with: a failure inside its try block
\* (missing key, network error, timeout, malformed response) or a list.
Failure == [ok |-> FALSE, list |-> <<>>]
Success(l) == [ok |-> TRUE, list |-> l]

AdapterOutcomes(a) ==
    CASE a = "newsAPI"     -> {Failure, Success(<<>>), Success(<<aChinaNews>>),
                               Success(<<aChinaNews, aHubble>>),
                               Success(<<aHubble, aChinaOld, aChinaNews>>)}
      [] a = "spaceflight" -> {Failure, Success(<<aChinaSpace>>), Success(<<aTimeline, aChinaSpace>>)}
      [] a = "nasaAPI"     -> {Failure, Success(<<aApod>>)}
      [] a = "nasaPage"    -> {Failure, Success(<<aNasaPage>>)}
      [] a = "seti"        -> {Failure, Success(<<aSeti>>)}

Plans ==
    {[newsAPI |-> n, spaceflight |-> s, nasaAPI |-> a, nasaPage |-> p, seti |-> t] :
        n \in AdapterOutcomes("newsAPI"), s \in AdapterOutcomes("spaceflight"),
        a \in AdapterOutcomes("nasaAPI"), p \in AdapterOutcomes("nasaPage"),
        t \in AdapterOutcomes("seti")}

\* every fetchFromX catches its errors and returns [], so its promise is
\* always fulfilled
Pending == [status |-> "pending", value |-> <<>>]
AdapterSettles(outcome) ==
    [status |-> "fulfilled", value |-> IF outcome.ok THEN outcome.list ELSE <<>>]

\* results.map(result => result.status === 'fulfilled' ? result.value : [])
SettledValue(r) == IF r.status = "fulfilled" THEN r.value ELSE <<>>

\* a variant of the join that lets the first settled promise through
AnySettled(results) == \E a \in AdapterSet : results[a].status # "pending"

\* Promise.allSettled: resolves when every promise has settled
AllSettled(results) == \A a \in AdapterSet : results[a].status # "pending"

RECURSIVE Concat(_, _)
Concat(results, order) ==
    IF order = <<>> THEN <<>>
    ELSE SettledValue(results[Head(order)]) \o Concat(results, Tail(order))

\* a variant of the dedup that keeps the first record of each URL
DedupByUrl_FirstWins(all) ==
    LET firsts == {i \in 1..Len(all) : \A j \in 1..(i - 1) : all[j].url # all[i].url}
        Nth(k) == CHOOSE i \in firsts : Cardinality({j \in firsts : j < i}) = k - 1
    IN [k \in 1..Cardinality(firsts) |-> all[Nth(k)]]

\* a variant of the dedup that drops nothing
DedupByUrl_None(all) == all

\* Array.from(new Map(all.map(a => [a.url, a])).values()): a key keeps the
\* position of its first insertion and the value of its last one
DedupByUrl(all) ==
    LET firsts == {i \in 1..Len(all) : \A j \in 1..(i - 1) : all[j].url # all[i].url}
        Nth(k) == CHOOSE i \in firsts : Cardinality({j \in firsts : j < i}) = k - 1
        Last(u) == CHOOSE i \in 1..Len(all) :
                       all[i].url = u /\ \A j \in (i + 1)..Len(all) : all[j].url # u
    IN [k \in 1..Cardinality(firsts) |-> all[Last(all[Nth(k)].url)]]

\* uniqueArticles.sort((a, b) => new Date(b.publishedAt) - new Date(a.publishedAt)):
\* newest first, stable (ECMAScript 2019) for a consistent comparator
RECURSIVE SortByPublished(_)
SortByPublished(s) ==
    IF s = <<>> THEN <<>>
    ELSE LET rest == SortByPublished(SubSeq(s, 1, Len(s) - 1))
             x == s[Len(s)]
             k == Cardinality({i \in 1..Len(rest) : rest[i].publishedAt >= x.publishedAt})
         IN SubSeq(rest, 1, k) \o <<x>> \o SubSeq(rest, k + 1, Len(rest))

\* a variant of the merge that concatenates in completion order
MergeOrder_Completion(order) == order

\* lines 256-262: the lists are spread in the order of the array, whatever
\* the order in which the promises settled
MergeOrder(order) == Adapters

\* fetchAllArticles, from the settled results
fetchAllArticles(results, order) ==
    SortByPublished(DedupByUrl(Concat(results, MergeOrder(order))))

(***************************************************************************)
(* The store and the ingestion pipeline.                                   *)
(***************************************************************************)
\* name and credibilityScore (hundredths) of the entries of DEFAULT_SOURCES
DEFAULT_SOURCES ==
    << [name |-> "NASA - 3I/ATLAS", credibilityScore |-> 99],
       [name |-> "ESA - 3I/ATLAS", credibilityScore |-> 99],
       [name |-> "SETI Institute - Breakthrough Listen", credibilityScore |-> 98],
       [name |-> "Space.com - 3I/ATLAS News", credibilityScore |-> 85],
       [name |-> "News API - Global News", credibilityScore |-> 80],
       [name |-> "Spaceflight News API", credibilityScore |-> 88] >>

\* how many entries of DEFAULT_SOURCES, from the first, a run iterates over
DefaultCount == 1

\* The scheduler's three triggers, each firing once in a behaviour: the
\* startup timer and cron '0 */4 * * *' call collectData, cron '0 */2 * * *'
\* calls initializeDefaultSources.
Runs == {"startup", "cron4h", "cron2h"}
JobOf(r) == IF r = "cron2h" THEN "rss" ELSE "collect"

\* sources has no unique key besides id: every insert succeeds
InsertSource(tbl, name, prior) ==
    Append(tbl, [id |-> Len(tbl) + 1, name |-> name, credibilityScore |-> prior])

\* select().from(sources).where(eq(sources.name, name)): the matching rows
SourcesNamed(tbl, name) == {i \in 1..Len(tbl) : tbl[i].name = name}

\* select().from(sources).where(eq(sources.name, name)).limit(1): InnoDB
\* scans the clustered index, so the row returned is the one of lowest id
FirstSourceNamed(tbl, name) ==
    CHOOSE i \in SourcesNamed(tbl, name) : \A j \in SourcesNamed(tbl, name) : i <= j

\* new Map(sourcesList.map(s => [s.name, s.id])) over select().from(sources),
\* rows in primary-key order: of several rows of one name the last one wins
SourceMap(tbl) ==
    {<<tbl[i].name, tbl[i].id>> : i \in {j \in 1..Len(tbl) :
                                      \A h \in (j + 1)..Len(tbl) : tbl[h].name # tbl[j].name}}

\* sourceMap.get(name): the set holding the id, or the empty set (undefined)
MapGet(sourceMap, name) == {pr[2] : pr \in {q \in sourceMap : q[1] = name}}

\* select().from(articles).where(eq(articles.url, url)).limit(1)
ArticlesWithUrl(tbl, url) == {i \in 1..Len(tbl) : tbl[i].url = url}

\* a variant of the articles table without the unique key on url
UrlIsFree_NoConstraint(tbl, url) == TRUE

\* url: varchar(500).notNull().unique(): an insert of a stored url is rejected
UrlIsFree(tbl, url) == ArticlesWithUrl(tbl, url) = {}

\* a variant of storeArticle that never finds the article
AlreadyStored_Never(tbl, url) == FALSE

\* storeArticle: existing.length > 0
AlreadyStored(tbl, url) == ArticlesWithUrl(tbl, url) # {}

\* the InsertArticle row storeArticle builds
NewArticle(tbl, art, sourceId, category, credibility) ==
    [id |-> Len(tbl) + 1, url |-> art.url, sourceId |-> sourceId, title |-> art.title,
     summary |-> art.description, category |-> category,
     credibilityScore |-> credibility, isAnalyzed |-> FALSE]

\* the fetches a pipeline run can see
NoneFetched == [a \in AdapterSet |-> Failure]
PipePlans ==
    { NoneFetched,
      [NoneFetched EXCEPT !["newsAPI"] = Success(<<aChinaNews, aHubble>>)],
      [NoneFetched EXCEPT !["newsAPI"] = Success(<<aChinaNews>>),
                          !["spaceflight"] = Success(<<aChinaSpace>>)],
      [NoneFetched EXCEPT !["nasaPage"] = Success(<<aNasaPage>>)] }

IdleRun ==
    [pc |-> "idle", job |-> "none", i |-> 0, batch |-> <<>>, k |-> 0, sourceMap |-> {},
     sourceId |-> 0, category |-> "none", credibility |-> 0,
     after |-> {}, tried |-> {}, ins |-> {}, rej |-> {}, failed |-> {}]

\* a finished invocation: its locals are gone, its history stays
Finished(st) ==
    [st EXCEPT !.pc = "done", !.i = 0, !.k = 0, !.sourceMap = {}, !.sourceId = 0,
               !.category = "none", !.credibility = 0]

\* initializeDefaultSources has returned
AfterInit(st) ==
    IF st.job = "rss" THEN Finished(st) ELSE [st EXCEPT !.pc = "fetch", !.i = 0]

\* the next entry of DEFAULT_SOURCES, or the end of the loop
NextDefault(st) ==
    IF st.i < DefaultCount THEN [st EXCEPT !.pc = "init_select", !.i = st.i + 1]
    ELSE AfterInit(st)

\* the head of the loop over allArticles, lines 253-283
NextArticle(st, k) ==
    IF k > Len(st.batch) THEN Finished(st)
    ELSE LET ids == MapGet(st.sourceMap, st.batch[k].source) IN
         IF ids # {}
         THEN [st EXCEPT !.pc = "score", !.k = k, !.sourceId = CHOOSE x \in ids : TRUE]
         ELSE [st EXCEPT !.pc = "src_insert", !.k = k, !.sourceId = 0]

\* A trigger fires and its callback starts: getDb(), then the head of the
\* loop of initializeDefaultSources.  node-cron and setTimeout do not wait
\* for an invocation that is still running.
Trigger(r) ==
    /\ run[r].pc = "idle"
    /\ LET st == [IdleRun EXCEPT !.job = JobOf(r),
                                 !.after = {q \in Runs : run[q].pc = "done"}]
       IN run' = [run EXCEPT ![r] =
                     IF dbAvailable THEN [st EXCEPT !.pc = "init_select", !.i = 1]
                     ELSE AfterInit(st)]
    /\ UNCHANGED <<dbAvailable, sourcesTbl, articlesTbl, fetchSt, cls, score, notifyVars, otherVars>>

\* initializeDefaultSources: the select of one default source by name
InitSelect(r) ==
    /\ run[r].pc = "init_select"
    /\ run' = [run EXCEPT ![r] =
                  IF SourcesNamed(sourcesTbl, DEFAULT_SOURCES[run[r].i].name) = {}
                  THEN [@ EXCEPT !.pc = "init_insert"]
                  ELSE NextDefault(@)]
    /\ UNCHANGED <<dbAvailable, sourcesTbl, articlesTbl, fetchSt, cls, score, notifyVars, otherVars>>

\* initializeDefaultSources: the insert that follows an empty select
InitInsert(r) ==
    /\ run[r].pc = "init_insert"
    /\ sourcesTbl' = InsertSource(sourcesTbl, DEFAULT_SOURCES[run[r].i].name,
                                  DEFAULT_SOURCES[run[r].i].credibilityScore)
    /\ run' = [run EXCEPT ![r] = NextDefault(@)]
    /\ UNCHANGED <<dbAvailable, articlesTbl, fetchSt, cls, score, notifyVars, otherVars>>

\* collectData: await fetchAllArticles(), then the two early returns
Fetch(r) ==
    /\ run[r].pc = "fetch"
    /\ \E plan \in PipePlans :
         LET results == [a \in AdapterSet |-> AdapterSettles(plan[a])]
             all == fetchAllArticles(results, Adapters)
         IN run' = [run EXCEPT ![r] =
                       IF Len(all) = 0 \/ ~dbAvailable
                       THEN Finished([@ EXCEPT !.batch = all])
                       ELSE [@ EXCEPT !.pc = "load_sources", !.batch = all]]
    /\ UNCHANGED <<dbAvailable, sourcesTbl, articlesTbl, fetchSt, cls, score, notifyVars, otherVars>>

\* collectData: sourcesList and sourceMap, built once before the loop
LoadSources(r) ==
    /\ run[r].pc = "load_sources"
    /\ run' = [run EXCEPT ![r] = NextArticle([@ EXCEPT !.sourceMap = SourceMap(sourcesTbl)], 1)]
    /\ UNCHANGED <<dbAvailable, sourcesTbl, articlesTbl, fetchSt, cls, score, notifyVars, otherVars>>

\* collectData: the provider is not in sourceMap, insert a source row for it
SourceInsert(r) ==
    /\ run[r].pc = "src_insert"
    /\ sourcesTbl' = InsertSource(sourcesTbl, run[r].batch[run[r].k].source, 75)
    /\ run' = [run EXCEPT ![r].pc = "src_select"]
    /\ UNCHANGED <<dbAvailable, articlesTbl, fetchSt, cls, score, notifyVars, otherVars>>

\* collectData: read the id of the inserted source back by name, limit 1
SourceSelect(r) ==
    /\ run[r].pc = "src_select"
    /\ run' = [run EXCEPT ![r].pc = "score",
                          ![r].sourceId =
                              sourcesTbl[FirstSourceNamed(sourcesTbl,
                                                          run[r].batch[run[r].k].source)].id]
    /\ UNCHANGED <<dbAvailable, sourcesTbl, articlesTbl, fetchSt, cls, score, notifyVars, otherVars>>

\* collectData: categorizeArticle and calculateCredibilityScore
Score(r) ==
    /\ run[r].pc = "score"
    /\ LET art == run[r].batch[run[r].k]
           category == JoinedCategory[art.title, art.description]
       IN run' = [run EXCEPT ![r].pc = "store_select",
                             ![r].category = category,
                             ![r].credibility =
                                 calculateCredibilityScore(dbAvailable, sourcesTbl,
                                                           run[r].sourceId, category)]
    /\ UNCHANGED <<dbAvailable, sourcesTbl, articlesTbl, fetchSt, cls, score, notifyVars, otherVars>>

\* a variant of storeArticle that refreshes the stored row of a known url
SkipExisting_Update(tbl, art, sourceId, category, credibility) ==
    [i \in 1..Len(tbl) |->
        IF tbl[i].url = art.url
        THEN [tbl[i] EXCEPT !.title = art.title, !.summary = art.description,
                            !.sourceId = sourceId, !.category = category,
                            !.credibilityScore = credibility]
        ELSE tbl[i]]

\* storeArticle, lines 127-130: the article exists, log and return; the
\* articles table as this branch leaves it
SkipExisting(tbl, art, sourceId, category, credibility) == tbl

\* storeArticle: the select by url and the return when the article exists
StoreSelect(r) ==
    /\ run[r].pc = "store_select"
    /\ LET art == run[r].batch[run[r].k] IN
       IF AlreadyStored(articlesTbl, art.url)
       THEN /\ articlesTbl' = SkipExisting(articlesTbl, art, run[r].sourceId,
                                           run[r].category, run[r].credibility)
            /\ run' = [run EXCEPT ![r] = NextArticle(@, run[r].k + 1)]
       ELSE /\ articlesTbl' = articlesTbl
            /\ run' = [run EXCEPT ![r].pc = "store_insert"]
    /\ UNCHANGED <<dbAvailable, sourcesTbl, fetchSt, cls, score, notifyVars, otherVars>>

\* storeArticle: the insert; a rejected insert is caught and logged there
StoreInsert(r) ==
    /\ run[r].pc = "store_insert"
    /\ LET art == run[r].batch[run[r].k] IN
       IF UrlIsFree(articlesTbl, art.url)
       THEN /\ articlesTbl' = Append(articlesTbl,
                                     NewArticle(articlesTbl, art, run[r].sourceId,
                                                run[r].category, run[r].credibility))
            /\ run' = [run EXCEPT ![r] =
                          NextArticle([@ EXCEPT !.tried = @ \cup {art.url},
                                                !.ins = @ \cup {art.url}], run[r].k + 1)]
       ELSE /\ articlesTbl' = articlesTbl
            /\ run' = [run EXCEPT ![r] =
                          NextArticle([@ EXCEPT !.tried = @ \cup {art.url},
                                                !.rej = @ \cup {art.url}], run[r].k + 1)]
    /\ UNCHANGED <<dbAvailable, sourcesTbl, fetchSt, cls, score, notifyVars, otherVars>>

\* a variant of collectData with the outer try/catch only: a failure on one
\* article ends the run
AfterFailure_Abort(st) == Finished([st EXCEPT !.failed = @ \cup {st.k}])

\* the catch inside the loop, lines 300-302 (and the catch of storeArticle,
\* lines 145-147, followed by its return to the loop): log, next article
AfterFailure(st) == NextArticle([st EXCEPT !.failed = @ \cup {st.k}], st.k + 1)

\* collectData: db.insert(sources) throws (the row is not written), or the
\* select that reads the id back throws; caught by the loop's catch
SourceFails(r) ==
    /\ run[r].pc \in {"src_insert", "src_select"}
    /\ run' = [run EXCEPT ![r] = AfterFailure(@)]
    /\ UNCHANGED <<dbAvailable, sourcesTbl, articlesTbl, fetchSt, cls, score, notifyVars, otherVars>>

\* calculateCredibilityScore: its select throws; its catch returns 0.5
ScoreFails(r) ==
    /\ run[r].pc = "score"
    /\ LET art == run[r].batch[run[r].k] IN
       run' = [run EXCEPT ![r].pc = "store_select",
                          ![r].category = JoinedCategory[art.title, art.description],
                          ![r].credibility = 50]
    /\ UNCHANGED <<dbAvailable, sourcesTbl, articlesTbl, fetchSt, cls, score, notifyVars, otherVars>>

\* storeArticle: its select or its insert throws for a reason other than the
\* unique key; its catch logs and storeArticle returns normally
StoreFails(r) ==
    /\ run[r].pc \in {"store_select", "store_insert"}
    /\ run' = [run EXCEPT ![r] = AfterFailure(@)]
    /\ UNCHANGED <<dbAvailable, sourcesTbl, articlesTbl, fetchSt, cls, score, notifyVars, otherVars>>

(***************************************************************************)
(* One fetchAllArticles call, adapter by adapter.                          *)
(***************************************************************************)
IdleFetch ==
    [phase |-> "idle", plan |-> NoneFetched, results |-> [a \in AdapterSet |-> Pending],
     order |-> <<>>, out |-> <<>>]

\* fetchAllArticles starts the five adapters; plan is what each will end with
FetchStart ==
    /\ fetchSt.phase = "idle"
    /\ \E plan \in Plans : fetchSt' = [IdleFetch EXCEPT !.phase = "pending", !.plan = plan]
    /\ UNCHANGED <<pipeVars, cls, score, notifyVars, otherVars>>

\* one adapter's promise settles; order records the completion order
AdapterSettle(a) ==
    /\ fetchSt.phase = "pending"
    /\ fetchSt.results[a].status = "pending"
    /\ fetchSt' = [fetchSt EXCEPT !.results[a] = AdapterSettles(fetchSt.plan[a]),
                                  !.order = Append(@, a)]
    /\ UNCHANGED <<pipeVars, cls, score, notifyVars, otherVars>>

\* the continuation of Promise.allSettled: merge, dedupe, sort, return
FetchMerge ==
    /\ fetchSt.phase = "pending"
    /\ AllSettled(fetchSt.results)
    /\ fetchSt' = [fetchSt EXCEPT !.phase = "done",
                                  !.out = fetchAllArticles(fetchSt.results, fetchSt.order)]
    /\ UNCHANGED <<pipeVars, cls, score, notifyVars, otherVars>>

(***************************************************************************)
(* Calls of the classifiers and of the scorer on their own.                *)
(***************************************************************************)
IdleCls == [fn |-> "none", title |-> "tEmpty", content |-> "cEmpty", out |-> "none"]

\* categorizeArticle(title, content)
ClassifyTwo ==
    /\ cls.fn = "none"
    /\ \E t \in Titles, c \in Contents :
         cls' = [fn |-> "two", title |-> t, content |-> c,
                 out |-> categorizeArticle2(TitleText[t], ContentText[c])]
    /\ UNCHANGED <<pipeVars, fetchSt, score, notifyVars, otherVars>>

\* categorizeArticle(`${title} ${description}`), as collectData calls it
ClassifyOneJoined ==
    /\ cls.fn = "none"
    /\ \E t \in Titles, c \in Contents :
         cls' = [fn |-> "joined", title |-> t, content |-> c,
                 out |-> categorizeArticle(Joined(TitleText[t], ContentText[c]))]
    /\ UNCHANGED <<pipeVars, fetchSt, score, notifyVars, otherVars>>

\* categorizeArticle(content), as dataCollector.test.ts calls it
ClassifyOneDirect ==
    /\ cls.fn = "none"
    /\ \E c \in Contents :
         cls' = [fn |-> "direct", title |-> "tEmpty", content |-> c,
                 out |-> categorizeArticle(ContentText[c])]
    /\ UNCHANGED <<pipeVars, fetchSt, score, notifyVars, otherVars>>

ClassifyReturn ==
    /\ cls.fn # "none"
    /\ cls' = IdleCls
    /\ UNCHANGED <<pipeVars, fetchSt, score, notifyVars, otherVars>>

IdleScore ==
    [phase |-> "idle", dbOk |-> TRUE, known |-> TRUE, prior |-> 0, category |-> "other", out |-> 0]

\* calculateCredibilityScore(sourceId, category) against a store that holds
\* the source with the given prior (known) or does not hold it
ScoreCall ==
    /\ score.phase = "idle"
    /\ \E dbOk \in BOOLEAN, known \in BOOLEAN, prior \in Priors, category \in Categories :
         LET tbl == IF known THEN InsertSource(<<>>, "Space.com", prior) ELSE <<>> IN
         score' = [phase |-> "returned", dbOk |-> dbOk, known |-> known, prior |-> prior,
                   category |-> category,
                   out |-> calculateCredibilityScore(dbOk, tbl, 1, category)]
    /\ UNCHANGED <<pipeVars, fetchSt, cls, notifyVars, otherVars>>

ScoreReturn ==
    /\ score.phase = "returned"
    /\ score' = IdleScore
    /\ UNCHANGED <<pipeVars, fetchSt, cls, notifyVars, otherVars>>

(***************************************************************************)
(* The notification service: times of day.                                 *)
(***************************************************************************)
\* the UTF-16 code units of the characters of an HH:MM string
CharCode ==
    [c \in {"0", "1", "2", "3", "4", "5", "6", "7", "8", "9", ":"} |->
        CASE c = "0" -> 48 [] c = "1" -> 49 [] c = "2" -> 50 [] c = "3" -> 51
          [] c = "4" -> 52 [] c = "5" -> 53 [] c = "6" -> 54 [] c = "7" -> 55
          [] c = "8" -> 56 [] c = "9" -> 57 [] c = ":" -> 58]

DigitChar == <<"0", "1", "2", "3", "4", "5", "6", "7", "8", "9">>

\* Number.prototype.toString of an integer in 0..99
toString(n) ==
    IF n < 10 THEN <<DigitChar[n + 1]>>
    ELSE <<DigitChar[(n \div 10) + 1], DigitChar[(n % 10) + 1]>>

\* s.padStart(2, '0')
padStart2(s) == IF Len(s) < 2 THEN <<"0">> \o s ELSE s

\* currentTime of shouldSendNotification: getHours and getMinutes, padded
currentTime(t) == padStart2(toString(t.h)) \o <<":">> \o padStart2(toString(t.m))

\* a < b on strings: the first differing code unit decides, a proper prefix
\* is smaller
RECURSIVE StrLess(_, _)
StrLess(a, b) ==
    IF b = <<>> THEN FALSE
    ELSE IF a = <<>> THEN TRUE
    ELSE IF CharCode[Head(a)] # CharCode[Head(b)] THEN CharCode[Head(a)] < CharCode[Head(b)]
    ELSE StrLess(Tail(a), Tail(b))

\* a <= b and a >= b on strings
StrLeq(a, b) == ~StrLess(b, a)
StrGeq(a, b) == ~StrLess(a, b)

\* a variant of isWithinTimeRange whose windows exclude their end
isWithinTimeRange_EndExclusive(current, start, end) ==
    IF start = <<>> \/ end = <<>> THEN FALSE
    ELSE IF StrLess(start, end)
         THEN StrGeq(current, start) /\ StrLess(current, end)
         ELSE StrGeq(current, start) \/ StrLess(current, end)

\* a variant of isWithinTimeRange that takes start = end as a same-day window
isWithinTimeRange_EqualIsSameDay(current, start, end) ==
    IF start = <<>> \/ end = <<>> THEN FALSE
    ELSE IF StrLeq(start, end)
         THEN StrGeq(current, start) /\ StrLeq(current, end)
         ELSE StrGeq(current, start) \/ StrLeq(current, end)

\* isWithinTimeRange; a null or empty start or end is the empty sequence
isWithinTimeRange(current, start, end) ==
    IF start = <<>> \/ end = <<>> THEN FALSE
    ELSE IF StrLess(start, end)
         THEN StrGeq(current, start) /\ StrLeq(current, end)
         ELSE StrGeq(current, start) \/ StrLeq(current, end)

\* the times of day the calls below are made with, and the window ends an
\* <input type="time"> saves
TimeHours == {0, 7, 8, 9, 14, 17, 22, 23}
TimeMinutes == {0, 30}
Times == {[h |-> h, m |-> m] : h \in TimeHours, m \in TimeMinutes}
TimeTexts == {currentTime(t) : t \in Times}

IdleTr == [phase |-> "idle", current |-> <<>>, start |-> <<>>, end |-> <<>>, out |-> FALSE]

\* isWithinTimeRange(current, start, end)
TimeRangeCall ==
    /\ tr.phase = "idle"
    /\ \E current \in TimeTexts, start \in TimeTexts \cup {<<>>}, end \in TimeTexts \cup {<<>>} :
         tr' = [phase |-> "returned", current |-> current, start |-> start, end |-> end,
                out |-> isWithinTimeRange(current, start, end)]
    /\ UNCHANGED <<pipeVars, fetchSt, cls, score, prefsTbl, notifTbl, clock, svc, gate, otherVars>>

TimeRangeReturn ==
    /\ tr.phase = "returned"
    /\ tr' = IdleTr
    /\ UNCHANGED <<pipeVars, fetchSt, cls, score, prefsTbl, notifTbl, clock, svc, gate, otherVars>>

(***************************************************************************)
(* The notification service: preferences and the filter engine.            *)
(* A text column is a sequence of tokens ("[", "]", ",", or an item); the  *)
(* empty sequence is NULL or ''.  An unset optional field of a payload is  *)
(* the empty string.                                                       *)
(***************************************************************************)
\* JSON.stringify of an array of strings
RECURSIVE JoinItems(_)
JoinItems(list) ==
    IF list = <<>> THEN <<>>
    ELSE IF Len(list) = 1 THEN list
    ELSE <<Head(list), ",">> \o JoinItems(Tail(list))

JSONstringify(list) == <<"[">> \o JoinItems(list) \o <<"]">>

\* JSON.parse succeeds with an array
IsJsonArray(text) == Len(text) >= 2 /\ text[1] = "[" /\ text[Len(text)] = "]"

\* JSON.parse of the text of an array of strings
JSONparse(text) == SelectSeq(SubSeq(text, 2, Len(text) - 1), LAMBDA tok : tok # ",")

\* Array.prototype.includes
arrayIncludes(list, v) == \E i \in 1..Len(list) : list[i] = v

NotificationTypes ==
    {"info", "success", "warning", "error",
     "article_new", "alert_triggered", "contradiction_found", "source_update"}

\* the column defaults of notificationPreferences; exists distinguishes a row
\* from the null that getUserNotificationPreferences returns
DefaultPrefs ==
    [exists |-> TRUE, userId |-> 0,
     enableToastNotifications |-> TRUE, enableNotificationCenter |-> TRUE,
     enableNewArticles |-> TRUE, enableAlerts |-> TRUE,
     enableContradictions |-> TRUE, enableSourceUpdates |-> TRUE,
     filterByCategory |-> <<>>, filterBySeverity |-> <<>>,
     doNotDisturbEnabled |-> FALSE, doNotDisturbStart |-> <<>>, doNotDisturbEnd |-> <<>>]

NoPrefs == [DefaultPrefs EXCEPT !.exists = FALSE]

\* a variant of shouldSendNotification that drops when there are no preferences
NoPrefsDecision_FailClosed == "false"

\* line 250: if (!prefs) return true
NoPrefsDecision == "true"

\* lines 253-255: both delivery channels are off
ChannelsOff(prefs) == ~prefs.enableToastNotifications /\ ~prefs.enableNotificationCenter

\* a variant of shouldSendNotification without the quiet-hours check
DndRejects_Never(prefs, now) == FALSE

\* lines 258-266: Do Not Disturb is on and the current time is in the window
DndRejects(prefs, now) ==
    /\ prefs.doNotDisturbEnabled
    /\ isWithinTimeRange(currentTime(now), prefs.doNotDisturbStart, prefs.doNotDisturbEnd)

\* a variant of the type filters without the check of source_update
TypeToggleRejects_NoSourceUpdate(payload, prefs) ==
    \/ payload.type = "article_new" /\ ~prefs.enableNewArticles
    \/ payload.type = "alert_triggered" /\ ~prefs.enableAlerts
    \/ payload.type = "contradiction_found" /\ ~prefs.enableContradictions

\* lines 269-272: the notification type filters
TypeToggleRejects(payload, prefs) ==
    \/ payload.type = "article_new" /\ ~prefs.enableNewArticles
    \/ payload.type = "alert_triggered" /\ ~prefs.enableAlerts
    \/ payload.type = "contradiction_found" /\ ~prefs.enableContradictions
    \/ payload.type = "source_update" /\ ~prefs.enableSourceUpdates

\* a variant of the allow-list filter that lets a text pass that does not parse
AllowListOutcome_InvalidPasses(text, value) ==
    IF text = <<>> \/ value = "" THEN "pass"
    ELSE IF ~IsJsonArray(text) THEN "pass"
    ELSE IF arrayIncludes(JSONparse(text), value) THEN "pass"
    ELSE "false"

\* lines 275-278 and 281-284: one allow-list filter; "pass", "false" (return
\* false) or "throws" (JSON.parse or includes throws)
AllowListOutcome(text, value) ==
    IF text = <<>> \/ value = "" THEN "pass"
    ELSE IF ~IsJsonArray(text) THEN "throws"
    ELSE IF arrayIncludes(JSONparse(text), value) THEN "pass"
    ELSE "false"

\* shouldSendNotification(payload, prefs), with the time new Date() gives:
\* "true", "false", or "throws"
shouldSendNotification(payload, prefs, now) ==
    IF ~prefs.exists THEN NoPrefsDecision
    ELSE IF ChannelsOff(prefs) THEN "false"
    ELSE IF DndRejects(prefs, now) THEN "false"
    ELSE IF TypeToggleRejects(payload, prefs) THEN "false"
    ELSE LET byCategory == AllowListOutcome(prefs.filterByCategory, payload.category) IN
         IF byCategory # "pass" THEN byCategory
         ELSE LET bySeverity == AllowListOutcome(prefs.filterBySeverity, payload.severity) IN
              IF bySeverity # "pass" THEN bySeverity
              ELSE "true"

\* the inputs of the calls of shouldSendNotification on its own
GateCategories == {"", "trajectory", "other"}
GateSeverities == {"", "low", "high"}
GatePayloads ==
    [type : NotificationTypes, category : GateCategories, severity : GateSeverities]
GateCategoryLists == {<<>>, JSONstringify(<<>>), JSONstringify(<<"trajectory", "composition">>)}
GateSeverityLists == {<<>>, JSONstringify(<<>>), JSONstringify(<<"high", "critical">>)}
GateWindows ==
    { [on |-> FALSE, start |-> currentTime([h |-> 22, m |-> 0]), end |-> currentTime([h |-> 8, m |-> 0])],
      [on |-> TRUE, start |-> <<>>, end |-> <<>>],
      [on |-> TRUE, start |-> currentTime([h |-> 22, m |-> 0]), end |-> currentTime([h |-> 8, m |-> 0])],
      [on |-> TRUE, start |-> currentTime([h |-> 9, m |-> 0]), end |-> currentTime([h |-> 17, m |-> 0])] }
GateNows == {[h |-> 23, m |-> 0], [h |-> 14, m |-> 30]}

IdleGate ==
    [phase |-> "idle", payload |-> [type |-> "info", category |-> "", severity |-> ""],
     prefs |-> NoPrefs, now |-> [h |-> 0, m |-> 0], out |-> "none"]

\* shouldSendNotification(payload, null)
GateCallNoPrefs ==
    /\ gate.phase = "idle"
    /\ \E payload \in GatePayloads, now \in GateNows :
         gate' = [phase |-> "returned", payload |-> payload, prefs |-> NoPrefs, now |-> now,
                  out |-> shouldSendNotification(payload, NoPrefs, now)]
    /\ UNCHANGED <<pipeVars, fetchSt, cls, score, prefsTbl, notifTbl, clock, svc, tr, otherVars>>

\* shouldSendNotification(payload, prefs) with a preference row
GateCall ==
    /\ gate.phase = "idle"
    /\ \E payload \in GatePayloads, now \in GateNows, w \in GateWindows,
          toast \in BOOLEAN, center \in BOOLEAN, flags \in [1..4 -> BOOLEAN],
          byCategory \in GateCategoryLists, bySeverity \in GateSeverityLists :
         LET prefs == [DefaultPrefs EXCEPT
                          !.userId = 1,
                          !.enableToastNotifications = toast,
                          !.enableNotificationCenter = center,
                          !.enableNewArticles = flags[1], !.enableAlerts = flags[2],
                          !.enableContradictions = flags[3], !.enableSourceUpdates = flags[4],
                          !.filterByCategory = byCategory, !.filterBySeverity = bySeverity,
                          !.doNotDisturbEnabled = w.on,
                          !.doNotDisturbStart = w.start, !.doNotDisturbEnd = w.end]
         IN gate' = [phase |-> "returned", payload |-> payload, prefs |-> prefs, now |-> now,
                     out |-> shouldSendNotification(payload, prefs, now)]
    /\ UNCHANGED <<pipeVars, fetchSt, cls, score, prefsTbl, notifTbl, clock, svc, tr, otherVars>>

GateReturn ==
    /\ gate.phase = "returned"
    /\ gate' = IdleGate
    /\ UNCHANGED <<pipeVars, fetchSt, cls, score, prefsTbl, notifTbl, clock, svc, tr, otherVars>>

(***************************************************************************)
(* The notification service: the two tables and the service calls.         *)
(***************************************************************************)
Users == {1, 2}

\* the users who save notification settings; the others have no preference row
PrefUsers == {1}

\* the users createNotification is called for; the others never had a
\* notification
Recipients == {1}

\* the callers whose calls of the service can overlap
Callers == {"a", "b"}

\* the callers that create notifications; every caller saves preferences
Creators == {"a"}

\* the runs whose store operations can fail
FaultRuns == {"startup"}

\* how many notification rows the model lets the table hold
MaxNotifs == 2

\* the server's clock at the calls: outside and inside the window 22:00-08:00
ClockTimes == <<[h |-> 14, m |-> 30], [h |-> 23, m |-> 0]>>

\* the candidates createNotification and broadcastNotification are called with
Candidates ==
    { [type |-> "alert_triggered", category |-> "trajectory", severity |-> "high"],
      [type |-> "info", category |-> "", severity |-> ""] }

\* the inputs of updateNotificationPreferences: the form of the settings page
\* with quiet hours switched on (handleSave sends every field, the allow-lists
\* as JSON text), and a partial update
PatchOf ==
    [ formQuiet |->
          [enableToastNotifications |-> TRUE, enableNotificationCenter |-> TRUE,
           enableNewArticles |-> TRUE, enableAlerts |-> TRUE,
           enableContradictions |-> TRUE, enableSourceUpdates |-> TRUE,
           filterByCategory |-> JSONstringify(<<"trajectory">>),
           filterBySeverity |-> JSONstringify(<<>>),
           doNotDisturbEnabled |-> TRUE,
           doNotDisturbStart |-> currentTime([h |-> 22, m |-> 0]),
           doNotDisturbEnd |-> currentTime([h |-> 8, m |-> 0])],
      noAlerts |-> [enableAlerts |-> FALSE],
      highOnly |-> [filterBySeverity |-> JSONstringify(<<"high">>)],
      rawSeverity |-> [filterBySeverity |-> <<"high">>] ]
Patches == {"formQuiet", "noAlerts"}

\* a partial update with a one-item severity allow-list, and one whose
\* allow-list text is the bare word, not the JSON of a list
ListPatches == {"highOnly", "rawSeverity"}

\* .set(prefs) / { userId, ...prefs }: the fields of the patch replace the row's
ApplyPatch(row, patch) ==
    [f \in DOMAIN row |-> IF f \in DOMAIN patch THEN patch[f] ELSE row[f]]

\* select().from(notificationPreferences).where(eq(userId, u))
PrefsOfUser(tbl, u) == {i \in 1..Len(tbl) : tbl[i].userId = u}

\* getUserNotificationPreferences: the row of the user (limit 1), or null
getUserNotificationPreferences(dbOk, tbl, u) ==
    IF ~dbOk \/ PrefsOfUser(tbl, u) = {} THEN NoPrefs
    ELSE tbl[CHOOSE i \in PrefsOfUser(tbl, u) : \A j \in PrefsOfUser(tbl, u) : i <= j]

\* the row createNotification inserts; isRead and isDismissed take the
\* column default false
NewNotification(tbl, u, payload) ==
    [id |-> Len(tbl) + 1, userId |-> u, type |-> payload.type,
     category |-> payload.category,
     severity |-> IF payload.severity = "" THEN "medium" ELSE payload.severity,
     isRead |-> FALSE, isDismissed |-> FALSE]

\* a variant of markNotificationAsRead that toggles the flag
MarkedRead_Toggle(tbl, id) ==
    [i \in 1..Len(tbl) |-> IF tbl[i].id = id THEN [tbl[i] EXCEPT !.isRead = ~@] ELSE tbl[i]]

\* update(notifications).set({ isRead: true }).where(eq(notifications.id, id))
MarkedRead(tbl, id) ==
    [i \in 1..Len(tbl) |-> IF tbl[i].id = id THEN [tbl[i] EXCEPT !.isRead = TRUE] ELSE tbl[i]]

\* update(notifications).set({ isDismissed: true }).where(eq(notifications.id, id))
Dismissed(tbl, id) ==
    [i \in 1..Len(tbl) |-> IF tbl[i].id = id THEN [tbl[i] EXCEPT !.isDismissed = TRUE] ELSE tbl[i]]

\* a variant of the insert that skips a row equal to a stored one
InsertNotification_Dedup(tbl, row) ==
    IF \E i \in 1..Len(tbl) : [tbl[i] EXCEPT !.id = row.id] = row THEN tbl
    ELSE Append(tbl, row)

\* db.insert(notifications).values(...)
InsertNotification(tbl, row) == Append(tbl, row)

\* a variant of the insert into notificationPreferences without the unique key
InsertPreferences_NoUniqueKey(tbl, row) == [ok |-> TRUE, tbl |-> Append(tbl, row)]

\* db.insert(notificationPreferences).values(...): the unique key on userId
\* rejects a second row of the user, and the insert throws
InsertPreferences(tbl, row) ==
    IF PrefsOfUser(tbl, row.userId) = {}
    THEN [ok |-> TRUE, tbl |-> Append(tbl, row)]
    ELSE [ok |-> FALSE, tbl |-> tbl]

\* a call of the service: where it is, what it was called with, what it has
\* read, and, once it is over (pc = "done"), what it returned: "null",
\* "true", "false", or "number" with the number in retN
IdleCall ==
    [pc |-> "idle", op |-> "none", user |-> 0,
     payload |-> [type |-> "info", category |-> "", severity |-> ""],
     prefs |-> NoPrefs, at |-> [h |-> 0, m |-> 0], queue |-> <<>>, count |-> 0,
     patch |-> "none", readFailed |-> FALSE, ret |-> "none", retN |-> 0]

\* the call returns to its caller
Returned(st, ret, n) ==
    [IdleCall EXCEPT !.pc = "done", !.op = st.op, !.user = st.user,
                     !.payload = st.payload,
                     !.readFailed = st.readFailed, !.ret = ret, !.retN = n]

\* createNotification has returned (result: it stored a row and returned
\* payload.userId, otherwise null): the loop of broadcastNotification counts
\* it and goes on with its next user, or returns the count
AfterCreate(st, result) ==
    LET count == IF result THEN st.count + 1 ELSE st.count IN
    IF st.op = "broadcast"
    THEN IF st.queue = <<>> THEN Returned(st, "number", count)
         ELSE [st EXCEPT !.pc = "cn_prefs", !.user = Head(st.queue),
                         !.queue = Tail(st.queue), !.prefs = NoPrefs,
                         !.at = [h |-> 0, m |-> 0], !.readFailed = FALSE,
                         !.count = count]
    ELSE IF result THEN Returned(st, "number", st.user)
    ELSE Returned(st, "null", 0)

\* the clock moves on
Tick ==
    /\ \E i \in 1..Len(ClockTimes) :
         /\ clock = ClockTimes[i]
         /\ clock' = ClockTimes[(i % Len(ClockTimes)) + 1]
    /\ UNCHANGED <<pipeVars, fetchSt, cls, score, prefsTbl, notifTbl, svc, tr, gate, otherVars>>

\* createNotification(payload): getDb; without a database it returns null
CreateStart(c) ==
    /\ svc[c].pc = "idle"
    /\ Len(notifTbl) < MaxNotifs
    /\ \E u \in Recipients, payload \in Candidates :
         LET st == [IdleCall EXCEPT !.pc = "cn_prefs", !.op = "create",
                                    !.user = u, !.payload = payload] IN
         svc' = [svc EXCEPT ![c] = IF dbAvailable THEN st ELSE Returned(st, "null", 0)]
    /\ UNCHANGED <<pipeVars, fetchSt, cls, score, prefsTbl, notifTbl, clock, tr, gate, otherVars>>

\* createNotification: the preferences are read and shouldSendNotification
\* decides; a false or a throw ends the call with null
CreateDecide(c) ==
    /\ svc[c].pc = "cn_prefs"
    /\ LET prefs == getUserNotificationPreferences(dbAvailable, prefsTbl, svc[c].user) IN
       svc' = [svc EXCEPT ![c] =
                  IF shouldSendNotification(svc[c].payload, prefs, clock) = "true"
                  THEN [@ EXCEPT !.pc = "cn_insert", !.prefs = prefs, !.at = clock]
                  ELSE AfterCreate(@, FALSE)]
    /\ UNCHANGED <<pipeVars, fetchSt, cls, score, prefsTbl, notifTbl, clock, tr, gate, otherVars>>

\* createNotification when the select of getUserNotificationPreferences
\* throws: the catch at lines 240-243 returns null, and shouldSendNotification
\* decides without preferences
CreateDecideReadFails(c) ==
    /\ svc[c].pc = "cn_prefs"
    /\ svc' = [svc EXCEPT ![c] =
                  IF shouldSendNotification(svc[c].payload, NoPrefs, clock) = "true"
                  THEN [@ EXCEPT !.pc = "cn_insert", !.prefs = NoPrefs, !.at = clock,
                                 !.readFailed = TRUE]
                  ELSE AfterCreate([@ EXCEPT !.readFailed = TRUE], FALSE)]
    /\ UNCHANGED <<pipeVars, fetchSt, cls, score, prefsTbl, notifTbl, clock, tr, gate, otherVars>>

\* createNotification: the insert, and the return of payload.userId
CreateInsert(c) ==
    /\ svc[c].pc = "cn_insert"
    /\ Len(notifTbl) < MaxNotifs
    /\ notifTbl' = InsertNotification(notifTbl,
                       NewNotification(notifTbl, svc[c].user, svc[c].payload))
    /\ svc' = [svc EXCEPT ![c] = AfterCreate(@, TRUE)]
    /\ UNCHANGED <<pipeVars, fetchSt, cls, score, prefsTbl, clock, tr, gate, otherVars>>

\* broadcastNotification(payload): without a database it returns 0; its
\* "users" are the rows of notifications, and without a row it returns 0
BroadcastStart(c) ==
    /\ svc[c].pc = "idle"
    /\ Len(notifTbl) < MaxNotifs
    /\ \E payload \in Candidates :
         LET users == [i \in 1..Len(notifTbl) |-> notifTbl[i].userId]
             st == [IdleCall EXCEPT !.op = "broadcast", !.payload = payload] IN
         svc' = [svc EXCEPT ![c] =
                    IF ~dbAvailable \/ users = <<>> THEN Returned(st, "number", 0)
                    ELSE [st EXCEPT !.pc = "cn_prefs", !.user = Head(users),
                                    !.queue = Tail(users)]]
    /\ UNCHANGED <<pipeVars, fetchSt, cls, score, prefsTbl, notifTbl, clock, tr, gate, otherVars>>

\* markNotificationAsRead(notificationId)
MarkRead(id) ==
    /\ dbAvailable
    /\ notifTbl' = MarkedRead(notifTbl, id)
    /\ UNCHANGED <<pipeVars, fetchSt, cls, score, prefsTbl, clock, svc, tr, gate, otherVars>>

\* dismissNotification(notificationId)
Dismiss(id) ==
    /\ dbAvailable
    /\ notifTbl' = Dismissed(notifTbl, id)
    /\ UNCHANGED <<pipeVars, fetchSt, cls, score, prefsTbl, clock, svc, tr, gate, otherVars>>

\* updateNotificationPreferences(userId, prefs) with a patch of the set
\* patches: without a database it returns false, otherwise it selects the
\* user's row
UpdateSelectOf(c, patches) ==
    /\ svc[c].pc = "idle"
    /\ \E u \in PrefUsers, p \in patches :
         LET st == [IdleCall EXCEPT !.op = "update", !.user = u, !.patch = p] IN
         svc' = [svc EXCEPT ![c] =
                    IF ~dbAvailable THEN Returned(st, "false", 0)
                    ELSE [st EXCEPT !.pc = IF PrefsOfUser(prefsTbl, u) = {}
                                           THEN "up_insert" ELSE "up_update"]]
    /\ UNCHANGED <<pipeVars, fetchSt, cls, score, prefsTbl, notifTbl, clock, tr, gate, otherVars>>

UpdateSelect(c) == UpdateSelectOf(c, Patches)

\* updateNotificationPreferences called with a severity allow-list, or with
\* allow-list text that is not JSON (the router takes any string)
UpdateSelectList(c) == UpdateSelectOf(c, ListPatches)

\* updateNotificationPreferences: the insert of a new row; when the insert
\* throws the error is caught and false is returned
UpdateInsert(c) ==
    /\ svc[c].pc = "up_insert"
    /\ LET done == InsertPreferences(prefsTbl,
                       ApplyPatch([DefaultPrefs EXCEPT !.userId = svc[c].user],
                                  PatchOf[svc[c].patch])) IN
       /\ prefsTbl' = done.tbl
       /\ svc' = [svc EXCEPT ![c] =
                     Returned(@, IF done.ok THEN "true" ELSE "false", 0)]
    /\ UNCHANGED <<pipeVars, fetchSt, cls, score, notifTbl, clock, tr, gate, otherVars>>

\* updateNotificationPreferences: the update of the existing row
UpdateSet(c) ==
    /\ svc[c].pc = "up_update"
    /\ prefsTbl' = [i \in 1..Len(prefsTbl) |->
                       IF prefsTbl[i].userId = svc[c].user
                       THEN ApplyPatch(prefsTbl[i], PatchOf[svc[c].patch])
                       ELSE prefsTbl[i]]
    /\ svc' = [svc EXCEPT ![c] = Returned(@, "true", 0)]
    /\ UNCHANGED <<pipeVars, fetchSt, cls, score, notifTbl, clock, tr, gate, otherVars>>

\* the caller has the result, and can call again
Return(c) ==
    /\ svc[c].pc = "done"
    /\ svc' = [svc EXCEPT ![c] = IdleCall]
    /\ UNCHANGED <<pipeVars, fetchSt, cls, score, prefsTbl, notifTbl, clock, tr, gate, otherVars>>

(***************************************************************************)
(* The scheduler: initializeScheduler, stopScheduler, getSchedulerStatus,  *)
(* and the callbacks node-cron and setTimeout run.                         *)
(***************************************************************************)
\* how many times initializeScheduler is called
MaxInits == 2

\* how many callbacks the log records
MaxFires == 2

\* no call of initializeScheduler or stopScheduler yet; inits counts the
\* calls of initializeScheduler, stoppedAt is that count at the last
\* stopScheduler
NoCalls == [last |-> "none", inits |-> 0, stoppedAt |-> 0]

\* what the three cron callbacks run: runDataCollection -> collectData,
\* runRSSCollection -> initializeDefaultSources, runDeepAnalysis
CronTasks == <<"collectData", "initializeDefaultSources", "deepAnalysis">>

\* cron.schedule(expression, callback): a new job, scheduled at once; gen is
\* the initializeScheduler call that made it
NewJob(task, gen) == [task |-> task, gen |-> gen, running |-> TRUE]

\* getSchedulerStatus()
getSchedulerStatus(jobs) == [isRunning |-> Len(jobs) > 0, jobCount |-> Len(jobs)]

\* initializeScheduler(): three cron jobs, the 5-second timer, and the
\* assignment of the three new jobs to scheduledJobs
initializeScheduler ==
    /\ schedCalls.inits < MaxInits
    /\ LET gen == schedCalls.inits + 1
           n == Len(cronJobs) IN
       /\ cronJobs' = cronJobs \o [i \in 1..3 |-> NewJob(CronTasks[i], gen)]
       /\ timers' = timers \cup {gen}
       /\ scheduledJobs' = <<n + 1, n + 2, n + 3>>
       /\ schedCalls' = [schedCalls EXCEPT !.last = "init", !.inits = gen]
    /\ UNCHANGED <<pipeVars, baseVars, analysisVars, qry, schedLog>>

\* scheduledJobs.forEach(job => job.stop())
StoppedJobs(jobs, held) ==
    [i \in 1..Len(jobs) |->
        IF \E k \in 1..Len(held) : held[k] = i
        THEN [jobs[i] EXCEPT !.running = FALSE] ELSE jobs[i]]

\* stopScheduler(): the jobs in scheduledJobs are stopped and the list is
\* emptied; the timers are not touched
stopScheduler ==
    /\ cronJobs' = StoppedJobs(cronJobs, scheduledJobs)
    /\ scheduledJobs' = <<>>
    /\ schedCalls' = [schedCalls EXCEPT !.last = "stop", !.stoppedAt = schedCalls.inits]
    /\ UNCHANGED <<pipeVars, baseVars, analysisVars, qry, timers, schedLog>>

\* the schedule of a job that is not stopped comes up: its callback starts
CronFires(j) ==
    /\ cronJobs[j].running
    /\ Len(schedLog) < MaxFires
    /\ schedLog' = Append(schedLog, [task |-> cronJobs[j].task, gen |-> cronJobs[j].gen,
                                     by |-> "cron"])
    /\ UNCHANGED <<pipeVars, baseVars, analysisVars, qry,
                   scheduledJobs, cronJobs, timers, schedCalls>>

\* the 5 seconds of a timer are over: runDataCollection starts
TimerFires(g) ==
    /\ g \in timers
    /\ Len(schedLog) < MaxFires
    /\ timers' = timers \ {g}
    /\ schedLog' = Append(schedLog, [task |-> "collectData", gen |-> g, by |-> "timer"])
    /\ UNCHANGED <<pipeVars, baseVars, analysisVars, qry,
                   scheduledJobs, cronJobs, schedCalls>>

(***************************************************************************)
(* The analysis engine: extractClaims, analyzeArticle,                      *)
(* storeClaimsInDatabase, generateAnalysisSummary, runFullAnalysisPipeline  *)
(* and detectContradictions.                                                *)
(***************************************************************************)
\* the articles the engine is called for
ArticleIds == {1, 2}

\* how many rows the model lets the claims, the contradictions and the
\* analysisResults tables hold
MaxClaims == 3
MaxContradictions == 1
MaxSummaries == 2

\* the drafts an answer of the LLM can hold; confidence in hundredths
Drafts ==
    << [type |-> "trajectory", confidence |-> 90],
       [type |-> "speculation", confidence |-> 40] >>
DraftLists == {<<>>, <<Drafts[1]>>, Drafts}

\* what can come back from invokeLLM instead of a JSON object: the call
\* throws, the message has no content, the content is not a string, the
\* content does not parse
LlmFailures == {"fails", "noContent", "notString", "malformed"}
NoAnswer == [kind |-> "none", hasClaims |-> FALSE, claims |-> <<>>,
             isContradictory |-> FALSE, contradictionLevel |-> "none"]
FailedAnswers == {[NoAnswer EXCEPT !.kind = k] : k \in LlmFailures}

\* the answers to the prompt of extractClaims: a failure, an object with a
\* list of claims, or an object without one
ExtractionAnswers ==
    FailedAnswers
    \cup {[NoAnswer EXCEPT !.kind = "object", !.hasClaims = TRUE, !.claims = l] :
             l \in DraftLists}
    \cup {[NoAnswer EXCEPT !.kind = "object"]}

\* the answers to the prompt of analyzeArticle
AnalysisAnswers == FailedAnswers \cup {[NoAnswer EXCEPT !.kind = "object"]}

\* the answers to the prompt of detectContradictions
ContradictionLevels == {"minor", "critical", "none"}
DetectionAnswers ==
    FailedAnswers
    \cup {[NoAnswer EXCEPT !.kind = "object", !.isContradictory = b,
                           !.contradictionLevel = l] :
             b \in BOOLEAN, l \in ContradictionLevels}

\* the body of the try of extractClaims (lines 28-83): invokeLLM or
\* JSON.parse throws, or a list is returned
ExtractBody(answer) ==
    IF answer.kind \in {"fails", "malformed"} THEN [out |-> "throws", list |-> <<>>]
    ELSE IF answer.kind \in {"noContent", "notString"} THEN [out |-> "returns", list |-> <<>>]
    ELSE [out |-> "returns", list |-> IF answer.hasClaims THEN answer.claims ELSE <<>>]

\* a variant of extractClaims without its catch
extractClaims_NoCatch(answer) == ExtractBody(answer)

\* extractClaims: the catch (lines 84-87) returns the empty list
extractClaims(answer) ==
    IF ExtractBody(answer).out = "throws" THEN [out |-> "returns", list |-> <<>>]
    ELSE ExtractBody(answer)

\* the row storeClaimsInDatabase inserts for a draft
NewClaim(tbl, articleId, draft) ==
    [id |-> Len(tbl) + 1, articleId |-> articleId, claimType |-> draft.type,
     confidence |-> draft.confidence, isVerified |-> FALSE,
     verificationStatus |-> "unverified"]

\* select().from(claims).where(eq(claims.articleId, articleId))
ClaimsOfArticle(tbl, articleId) == SelectSeq(tbl, LAMBDA c : c.articleId = articleId)

\* select().from(claims).where(eq(claims.id, id))
ClaimsWithId(tbl, id) == SelectSeq(tbl, LAMBDA c : c.id = id)

\* no call of runFullAnalysisPipeline is running; base is the number of
\* claim rows of the article when the call started, extracted tells whether
\* extractClaims was called, with which answer and with which outcome
IdleEng ==
    [pc |-> "idle", articleId |-> 0, base |-> 0, extracted |-> FALSE,
     answer |-> NoAnswer, out |-> "none", returned |-> <<>>, claims |-> <<>>, i |-> 0]

\* runFullAnalysisPipeline(articleId, title, content) is called
PipelineStart(a) ==
    /\ eng.pc = "idle"
    /\ Len(claimsTbl) + Len(Drafts) <= MaxClaims
    /\ Len(analysisResultsTbl) < MaxSummaries
    /\ eng' = [IdleEng EXCEPT !.pc = "analyze", !.articleId = a,
                              !.base = Len(ClaimsOfArticle(claimsTbl, a))]
    /\ UNCHANGED <<pipeVars, baseVars, schedVars, claimsTbl, contradictionsTbl,
                   analysisResultsTbl, det, qry>>

\* analyzeArticle: its own invokeLLM call; without a usable answer it returns
\* no claims and extractClaims is not called
AnalyzeLLM ==
    /\ eng.pc = "analyze"
    /\ \E answer \in AnalysisAnswers :
         eng' = [eng EXCEPT !.pc = IF answer.kind = "object" THEN "extract" ELSE "store",
                            !.i = 1]
    /\ UNCHANGED <<pipeVars, baseVars, schedVars, claimsTbl, contradictionsTbl,
                   analysisResultsTbl, det, qry>>

\* analyzeArticle calls extractClaims, and returns its list as
\* analysis.claims; a throw would end in the catch of analyzeArticle, which
\* returns no claims
ExtractLLM ==
    /\ eng.pc = "extract"
    /\ \E answer \in ExtractionAnswers :
         LET r == extractClaims(answer) IN
         eng' = [eng EXCEPT !.pc = "store", !.extracted = TRUE, !.answer = answer, !.out = r.out,
                            !.returned = r.list,
                            !.claims = IF r.out = "throws" THEN <<>> ELSE r.list]
    /\ UNCHANGED <<pipeVars, baseVars, schedVars, claimsTbl, contradictionsTbl,
                   analysisResultsTbl, det, qry>>

\* storeClaimsInDatabase: one insert of the loop
StoredClaim(tbl, articleId, draft) == Append(tbl, NewClaim(tbl, articleId, draft))

\* storeClaimsInDatabase: without a database it returns at once; otherwise
\* one pass of the loop, or the end of the loop
StoreClaim ==
    /\ eng.pc = "store"
    /\ IF dbAvailable /\ eng.i <= Len(eng.claims)
       THEN /\ claimsTbl' = StoredClaim(claimsTbl, eng.articleId, eng.claims[eng.i])
            /\ eng' = [eng EXCEPT !.i = @ + 1]
       ELSE /\ eng' = [eng EXCEPT !.pc = "store_summary"]
            /\ UNCHANGED claimsTbl
    /\ UNCHANGED <<pipeVars, baseVars, schedVars, contradictionsTbl,
                   analysisResultsTbl, det, qry>>

\* generateAnalysisSummary: without a database or without claims of the
\* article it returns; otherwise it inserts one analysisResults row
GenerateSummary ==
    /\ eng.pc = "store_summary"
    /\ analysisResultsTbl' =
           IF dbAvailable /\ ClaimsOfArticle(claimsTbl, eng.articleId) # <<>>
           THEN Append(analysisResultsTbl,
                       [articleId |-> eng.articleId,
                        analysisType |-> "summary_generation",
                        totalClaims |-> Len(ClaimsOfArticle(claimsTbl, eng.articleId))])
           ELSE analysisResultsTbl
    /\ eng' = [eng EXCEPT !.pc = "done"]
    /\ UNCHANGED <<pipeVars, baseVars, schedVars, claimsTbl, contradictionsTbl, det, qry>>

\* a variant of the pipeline that marks its article as analyzed
ArticlesAfterAnalysis_Marked(tbl, articleId) ==
    [i \in 1..Len(tbl) |->
        IF tbl[i].id = articleId THEN [tbl[i] EXCEPT !.isAnalyzed = TRUE] ELSE tbl[i]]

\* the articles table after analyzeArticle, storeClaimsInDatabase and
\* generateAnalysisSummary: none of them writes it
ArticlesAfterAnalysis(tbl, articleId) == tbl

\* runFullAnalysisPipeline has returned
PipelineReturn ==
    /\ eng.pc = "done"
    /\ eng' = IdleEng
    /\ articlesTbl' = ArticlesAfterAnalysis(articlesTbl, eng.articleId)
    /\ UNCHANGED <<dbAvailable, sourcesTbl, run, baseVars, schedVars, claimsTbl,
                   contradictionsTbl, analysisResultsTbl, det, qry>>

\* the pairs of claim ids detectContradictions is called with
DetectPairs == {<<1, 2>>, <<2, 3>>, <<3, 1>>}

IdleDet ==
    [pc |-> "idle", claimId1 |-> 0, claimId2 |-> 0, found1 |-> FALSE, found2 |-> FALSE,
     answer |-> NoAnswer, ret |-> FALSE]

\* detectContradictions has returned ret
DetReturned(st, ret) == [st EXCEPT !.pc = "done", !.ret = ret]

\* detectContradictions(claimId1, claimId2): getDb, and the select of the
\* first claim
DetectStart(id1, id2) ==
    /\ det.pc = "idle"
    /\ Len(contradictionsTbl) < MaxContradictions
    /\ LET st == [IdleDet EXCEPT !.claimId1 = id1, !.claimId2 = id2] IN
       det' = IF ~dbAvailable THEN DetReturned(st, FALSE)
              ELSE IF ClaimsWithId(claimsTbl, id1) = <<>> THEN DetReturned(st, FALSE)
              ELSE [st EXCEPT !.pc = "select2", !.found1 = TRUE]
    /\ UNCHANGED <<pipeVars, baseVars, schedVars, claimsTbl, contradictionsTbl,
                   analysisResultsTbl, eng, qry>>

\* detectContradictions: the select of the second claim
DetectSelect2 ==
    /\ det.pc = "select2"
    /\ det' = IF ClaimsWithId(claimsTbl, det.claimId2) = <<>> THEN DetReturned(det, FALSE)
              ELSE [det EXCEPT !.pc = "llm", !.found2 = TRUE]
    /\ UNCHANGED <<pipeVars, baseVars, schedVars, claimsTbl, contradictionsTbl,
                   analysisResultsTbl, eng, qry>>

\* a variant of the test of the answer that does not look at the level
IsContradiction_AnyLevel(answer) == answer.kind = "object" /\ answer.isContradictory

\* lines 252-254: the answer has parsed, and
\* parsed.isContradictory && parsed.contradictionLevel !== 'none'
IsContradiction(answer) ==
    /\ answer.kind = "object"
    /\ answer.isContradictory
    /\ answer.contradictionLevel # "none"

\* detectContradictions: the answer of the LLM; a contradiction is inserted
\* and true is returned, anything else (also a throw, caught at 266-269)
\* returns false
DetectLLM ==
    /\ det.pc = "llm"
    /\ \E answer \in DetectionAnswers :
         /\ contradictionsTbl' =
                IF IsContradiction(answer)
                THEN Append(contradictionsTbl,
                            [claimId1 |-> det.claimId1, claimId2 |-> det.claimId2,
                             contradictionLevel |-> answer.contradictionLevel,
                             resolutionStatus |-> "unresolved"])
                ELSE contradictionsTbl
         /\ det' = DetReturned([det EXCEPT !.answer = answer], IsContradiction(answer))
    /\ UNCHANGED <<pipeVars, baseVars, schedVars, claimsTbl, analysisResultsTbl, eng, qry>>

\* the caller of detectContradictions has the result
DetectReturn ==
    /\ det.pc = "done"
    /\ det' = IdleDet
    /\ UNCHANGED <<pipeVars, baseVars, schedVars, claimsTbl, contradictionsTbl,
                   analysisResultsTbl, eng, qry>>

(***************************************************************************)
(* The queries of db.ts.                                                   *)
(***************************************************************************)
QueryFns == {"getLatestArticles", "getArticlesByCategory", "getArticlesBySource",
             "getSourceById"}

\* the argument of the calls: a category, a source id (the limit is the
\* default 20, more than the tables of the model hold)
QueryArgs == [category |-> "trajectory", id |-> 1]

\* the ids of the rows the select of the query gives
QueryRows(fn, articles, sources) ==
    IF fn = "getLatestArticles" THEN [i \in 1..Len(articles) |-> articles[i].id]
    ELSE IF fn = "getArticlesByCategory"
    THEN LET hit == SelectSeq(articles, LAMBDA a : a.category = QueryArgs.category) IN
         [i \in 1..Len(hit) |-> hit[i].id]
    ELSE IF fn = "getArticlesBySource"
    THEN LET hit == SelectSeq(articles, LAMBDA a : a.sourceId = QueryArgs.id) IN
         [i \in 1..Len(hit) |-> hit[i].id]
    ELSE LET hit == SelectSeq(sources, LAMBDA x : x.id = QueryArgs.id) IN
         [i \in 1..Len(hit) |-> hit[i].id]

\* a query of db.ts: without a database the default ([] or undefined: no
\* rows); otherwise the awaited select, with nothing that catches its
\* rejection
QueryResult(fn, dbOk, fails, articles, sources) ==
    IF ~dbOk THEN [outcome |-> "returns", rows |-> <<>>]
    ELSE IF fails THEN [outcome |-> "throws", rows |-> <<>>]
    ELSE [outcome |-> "returns", rows |-> QueryRows(fn, articles, sources)]

IdleQry == [phase |-> "idle", fn |-> "none", failed |-> FALSE,
            outcome |-> "none", rows |-> <<>>]

\* a query is called; its select succeeds or fails
QueryCall ==
    /\ qry.phase = "idle"
    /\ \E fn \in QueryFns, fails \in BOOLEAN :
         LET r == QueryResult(fn, dbAvailable, fails, articlesTbl, sourcesTbl) IN
         qry' = [phase |-> "returned", fn |-> fn, failed |-> dbAvailable /\ fails,
                 outcome |-> r.outcome, rows |-> r.rows]
    /\ UNCHANGED <<pipeVars, baseVars, schedVars, analysisVars>>

QueryReturn ==
    /\ qry.phase = "returned"
    /\ qry' = IdleQry
    /\ UNCHANGED <<pipeVars, baseVars, schedVars, analysisVars>>

(***************************************************************************)
(* Specifications.                                                         *)
(***************************************************************************)
InitIdle ==
    /\ sourcesTbl = <<>>
    /\ articlesTbl = <<>>
    /\ run = [r \in Runs |-> IdleRun]
    /\ fetchSt = IdleFetch
    /\ cls = IdleCls
    /\ score = IdleScore
    /\ prefsTbl = <<>>
    /\ notifTbl = <<>>
    /\ clock = ClockTimes[1]
    /\ svc = [c \in Callers |-> IdleCall]
    /\ tr = IdleTr
    /\ gate = IdleGate
    /\ scheduledJobs = <<>>
    /\ cronJobs = <<>>
    /\ timers = {}
    /\ schedLog = <<>>
    /\ schedCalls = NoCalls
    /\ claimsTbl = <<>>
    /\ contradictionsTbl = <<>>
    /\ analysisResultsTbl = <<>>
    /\ eng = IdleEng
    /\ det = IdleDet
    /\ qry = IdleQry

\* the pipeline: the store starts empty, with or without a configured database
Init == dbAvailable \in BOOLEAN /\ InitIdle

Next ==
    \/ \E r \in Runs : Trigger(r)
    \/ \E r \in Runs : InitSelect(r)
    \/ \E r \in Runs : InitInsert(r)
    \/ \E r \in Runs : Fetch(r)
    \/ \E r \in Runs : LoadSources(r)
    \/ \E r \in Runs : SourceInsert(r)
    \/ \E r \in Runs : SourceSelect(r)
    \/ \E r \in Runs : Score(r)
    \/ \E r \in Runs : StoreSelect(r)
    \/ \E r \in Runs : StoreInsert(r)

Spec == Init /\ [][Next]_vars

\* the pipeline with store operations that can fail inside the loop
NextFailures ==
    \/ Next
    \/ \E r \in FaultRuns : SourceFails(r)
    \/ \E r \in FaultRuns : ScoreFails(r)
    \/ \E r \in FaultRuns : StoreFails(r)

SpecFailures == Init /\ [][NextFailures]_vars

\* the aggregator alone
InitFetch == dbAvailable = TRUE /\ InitIdle

NextFetch ==
    \/ FetchStart
    \/ \E a \in AdapterSet : AdapterSettle(a)
    \/ FetchMerge

SpecFetch == InitFetch /\ [][NextFetch]_vars

\* the classifiers alone
NextClassify ==
    \/ ClassifyTwo
    \/ ClassifyOneJoined
    \/ ClassifyOneDirect
    \/ ClassifyReturn

SpecClassify == InitFetch /\ [][NextClassify]_vars

\* the scorer alone
NextScore ==
    \/ ScoreCall
    \/ ScoreReturn

SpecScore == InitFetch /\ [][NextScore]_vars

\* isWithinTimeRange alone
NextTime ==
    \/ TimeRangeCall
    \/ TimeRangeReturn

SpecTime == InitFetch /\ [][NextTime]_vars

\* shouldSendNotification alone
NextGate ==
    \/ GateCallNoPrefs
    \/ GateCall
    \/ GateReturn

SpecGate == InitFetch /\ [][NextGate]_vars

\* the notification service: both tables start empty
NextNotify ==
    \/ Tick
    \/ \E c \in Creators : CreateStart(c)
    \/ \E c \in Creators : CreateDecide(c)
    \/ \E c \in Creators : CreateInsert(c)
    \/ \E c \in Creators : BroadcastStart(c)
    \/ \E id \in 1..MaxNotifs : MarkRead(id)
    \/ \E id \in 1..MaxNotifs : Dismiss(id)
    \/ \E c \in Callers : UpdateSelect(c)
    \/ \E c \in Callers : UpdateInsert(c)
    \/ \E c \in Callers : UpdateSet(c)
    \/ \E c \in Callers : Return(c)

SpecNotify == Init /\ [][NextNotify]_vars

\* the creation of notifications and the saving of preferences, with
\* allow-lists saved by direct calls and with reads of the preferences that
\* can fail
NextNotifyFaults ==
    \/ Tick
    \/ \E c \in Creators : CreateStart(c)
    \/ \E c \in Creators : CreateDecide(c)
    \/ \E c \in Creators : CreateDecideReadFails(c)
    \/ \E c \in Creators : CreateInsert(c)
    \/ \E c \in Creators : BroadcastStart(c)
    \/ \E c \in Callers : UpdateSelect(c)
    \/ \E c \in Creators : UpdateSelectList(c)
    \/ \E c \in Callers : UpdateInsert(c)
    \/ \E c \in Callers : UpdateSet(c)
    \/ \E c \in Callers : Return(c)

SpecNotifyFaults == Init /\ [][NextNotifyFaults]_vars

\* the scheduler alone
NextSched ==
    \/ initializeScheduler
    \/ stopScheduler
    \/ \E j \in 1..(3 * MaxInits) : j <= Len(cronJobs) /\ CronFires(j)
    \/ \E g \in 1..MaxInits : TimerFires(g)

SpecSched == InitFetch /\ [][NextSched]_vars

\* one invocation of collectData: the one the startup timer starts
NextStartup ==
    \E r \in FaultRuns :
        \/ Trigger(r)
        \/ InitSelect(r)
        \/ InitInsert(r)
        \/ Fetch(r)
        \/ LoadSources(r)
        \/ SourceInsert(r)
        \/ SourceSelect(r)
        \/ Score(r)
        \/ StoreSelect(r)
        \/ StoreInsert(r)

\* runFullAnalysisPipeline
NextEngine ==
    \/ \E a \in ArticleIds : PipelineStart(a)
    \/ AnalyzeLLM
    \/ ExtractLLM
    \/ StoreClaim
    \/ GenerateSummary
    \/ PipelineReturn

\* detectContradictions
NextDetect ==
    \/ \E p \in DetectPairs : DetectStart(p[1], p[2])
    \/ DetectSelect2
    \/ DetectLLM
    \/ DetectReturn

\* the analysis engine alone
SpecEngine == Init /\ [][NextEngine \/ NextDetect]_vars

\* the analysis engine beside a collectData run
SpecAnalysis == Init /\ [][NextStartup \/ NextEngine \/ NextDetect]_vars

\* the queries of db.ts beside a collectData run
NextQueries ==
    \/ NextStartup
    \/ QueryCall
    \/ QueryReturn

SpecQueries == Init /\ [][NextQueries]_vars

(***************************************************************************)
(* Classifier claims.                                                      *)
(***************************************************************************)
\* the ordered rule list of the two-argument classifier, as documented
PriorityRules ==
    << [cat |-> "debunking", kws |-> {"debunk", "false", "incorrect"}],
       [cat |-> "timeline_event", kws |-> {"timeline", "chronology", "sequence"}],
       [cat |-> "international_perspective",
        kws |-> {"china", "russia", "japan", "india", "international"}],
       [cat |-> "trajectory", kws |-> {"trajectory", "orbit", "path"}],
       [cat |-> "composition", kws |-> {"composition", "chemical", "element"}],
       [cat |-> "activity", kws |-> {"activity", "outgassing", "tail"}],
       [cat |-> "government_statement", kws |-> {"government", "statement", "official"}],
       [cat |-> "speculation", kws |-> {"speculation", "theory", "claim"}],
       [cat |-> "scientific_discovery", kws |-> {"discovery", "observation", "telescope"}] >>

\* the ordered rule list of the one-argument classifier, as its tests fix it
OneArgRules ==
    << [cat |-> "trajectory", kws |-> {"trajectory", "orbit", "path"}],
       [cat |-> "composition", kws |-> {"composition", "chemical", "analysis"}],
       [cat |-> "activity", kws |-> {"activity", "outgassing", "tail"}],
       [cat |-> "government_statement", kws |-> {"government", "statement", "official"}],
       [cat |-> "debunking", kws |-> {"debunk", "false", "refute"}],
       [cat |-> "speculation", kws |-> {"speculation", "theory", "claim"}],
       [cat |-> "scientific_discovery", kws |-> {"discovery", "observation", "telescope"}] >>

RuleMatches(rule, lowerText) == \E k \in rule.kws : includes(lowerText, Kw[k])

\* the category of the lowest-numbered matching rule, "other" when none matches
RuleCategory(rules, lowerText) ==
    LET hits == {i \in 1..Len(rules) : RuleMatches(rules[i], lowerText)} IN
    IF hits = {} THEN "other"
    ELSE rules[CHOOSE i \in hits : \A j \in hits : i <= j].cat

ClsText ==
    IF cls.fn = "direct" THEN ContentText[cls.content]
    ELSE Joined(TitleText[cls.title], ContentText[cls.content])

\* C7: categorizeArticle(title, content) returns the category of the
\* lowest-numbered matching rule of the order debunking, timeline_event,
\* international_perspective, trajectory, composition, activity,
\* government_statement, speculation, scientific_discovery, and "other" iff
\* no rule matches; a text that matches a debunk keyword is debunking
\* whatever later rule it also matches.
C7_FirstMatchingRuleWins ==
    cls.fn = "two" =>
        LET text == toLowerCase(ClsText) IN
        /\ cls.out = RuleCategory(PriorityRules, text)
        /\ (cls.out = "other") = (\A i \in 1..Len(PriorityRules) : ~RuleMatches(PriorityRules[i], text))
        /\ RuleMatches(PriorityRules[1], text) => cls.out = "debunking"

\* every pair of rules of the list overlaps on some catalogued text
PairwiseOverlapsCovered ==
    \A i, j \in 1..Len(PriorityRules) :
        i < j => \E t \in Titles, c \in Contents :
                    LET text == toLowerCase(Joined(TitleText[t], ContentText[c])) IN
                    RuleMatches(PriorityRules[i], text) /\ RuleMatches(PriorityRules[j], text)

\* C7 witness: "NASA debunks trajectory rumor" / "orbit path analysis" matches
\* the debunk rule and the trajectory rule and was classified debunking
C7_Witness ==
    /\ cls.fn = "two" /\ cls.title = "tDebunkT" /\ cls.content = "cOrbit"
    /\ RuleMatches(PriorityRules[4], toLowerCase(ClsText))
    /\ cls.out = "debunking"
    /\ PairwiseOverlapsCovered

NearestHundredth(h, x) == 100 * h - x <= 50 /\ x - 100 * h <= 50

\* C10: for every stored prior p in [0,1] and every category the score is in
\* [0,1]; it is min(p*1.10, 1) for scientific_discovery, max(p*0.70, 0.10)
\* for speculation and min(p*1.05, 1) for debunking, rounded to two decimals;
\* score(0.80, speculation) = 0.56 and score(0.99, scientific_discovery) = 1.00.
C10_AdjustedScore ==
    (score.phase = "returned" /\ score.dbOk /\ score.known) =>
        /\ score.out \in 0..100
        /\ score.category = "scientific_discovery" =>
               NearestHundredth(score.out, Min(score.prior * 110, 10000))
        /\ score.category = "speculation" =>
               NearestHundredth(score.out, Max(score.prior * 70, 1000))
        /\ score.category = "debunking" =>
               NearestHundredth(score.out, Min(score.prior * 105, 10000))
        /\ (score.prior = 80 /\ score.category = "speculation") => score.out = 56
        /\ (score.prior = 99 /\ score.category = "scientific_discovery") => score.out = 100

\* the three categories calculateCredibilityScore adjusts
AdjustedCategories == {"scientific_discovery", "speculation", "debunking"}

\* C11: for an existing source with prior p in [0,1], p = 0 included, and a
\* category other than scientific_discovery, speculation and debunking the
\* score is exactly p; 0.5 is the base only when the source is unknown.
C11_OtherCategoryUnchanged ==
    (score.phase = "returned" /\ score.dbOk /\ score.category \notin AdjustedCategories) =>
        /\ score.known => score.out = score.prior
        /\ ~score.known => score.out = 50

(***************************************************************************)
(* Aggregator claims.                                                      *)
(***************************************************************************)
\* what the adapters of the finished call returned, in the order of the array
ReturnedLists ==
    [i \in 1..Len(Adapters) |->
        IF fetchSt.plan[Adapters[i]].ok THEN fetchSt.plan[Adapters[i]].list ELSE <<>>]

RECURSIVE Flatten(_)
Flatten(lists) == IF lists = <<>> THEN <<>> ELSE Head(lists) \o Flatten(Tail(lists))

ReturnedRecords == Flatten(ReturnedLists)
ReturnedUrls == {ReturnedRecords[i].url : i \in 1..Len(ReturnedRecords)}

\* C4: the list fetchAllArticles returns holds exactly one entry for each
\* distinct URL that occurs in any adapter's list, and no URL twice.
C4_OneEntryPerUrl ==
    fetchSt.phase = "done" =>
        /\ {fetchSt.out[i].url : i \in 1..Len(fetchSt.out)} = ReturnedUrls
        /\ \A i, j \in 1..Len(fetchSt.out) :
               fetchSt.out[i].url = fetchSt.out[j].url => i = j

\* C4 witness: two adapters returned the same URL and the result has one
\* entry for it among others
C4_Witness ==
    /\ fetchSt.phase = "done"
    /\ Len(ReturnedRecords) > Len(fetchSt.out)
    /\ Len(fetchSt.out) >= 2
    /\ \E i \in 1..Len(ReturnedLists[1]), j \in 1..Len(ReturnedLists[2]) :
           ReturnedLists[1][i].url = ReturnedLists[2][j].url

\* C5 as claimed: of several records with one URL the one kept is the first
\* in merge order.
C5_FirstSeenWins ==
    fetchSt.phase = "done" =>
        \A i \in 1..Len(fetchSt.out) :
            \E k \in 1..Len(ReturnedRecords) :
                /\ ReturnedRecords[k] = fetchSt.out[i]
                /\ \A h \in 1..(k - 1) : ReturnedRecords[h].url # fetchSt.out[i].url

\* C5 as amended: of several records with one URL the one kept is the last
\* in merge order (last-seen wins): title, description, source and
\* publishedAt are those of the latest record with that URL.
C5_LastSeenWins ==
    fetchSt.phase = "done" =>
        \A i \in 1..Len(fetchSt.out) :
            \E k \in 1..Len(ReturnedRecords) :
                /\ ReturnedRecords[k] = fetchSt.out[i]
                /\ \A h \in (k + 1)..Len(ReturnedRecords) :
                       ReturnedRecords[h].url # fetchSt.out[i].url

\* C5 witness: two returned records share a URL and differ, and the call is done
C5_Witness ==
    /\ fetchSt.phase = "done"
    /\ \E h, k \in 1..Len(ReturnedRecords) :
           /\ h < k
           /\ ReturnedRecords[h].url = ReturnedRecords[k].url
           /\ ReturnedRecords[h] # ReturnedRecords[k]
           /\ \E i \in 1..Len(fetchSt.out) : fetchSt.out[i] = ReturnedRecords[k]

\* C6: fetchAllArticles merges only when all five adapters have settled; a
\* failed adapter contributes the empty list and loses nothing of the others;
\* the list returned is fixed by what the adapters returned, whatever the
\* order in which they completed.
C6_MergeAfterAllSettled ==
    fetchSt.phase = "done" =>
        /\ Len(fetchSt.order) = Len(Adapters)
        /\ \A a \in AdapterSet :
               fetchSt.results[a].value = (IF fetchSt.plan[a].ok THEN fetchSt.plan[a].list ELSE <<>>)
        /\ \A a \in AdapterSet : fetchSt.plan[a].ok =>
               \A i \in 1..Len(fetchSt.plan[a].list) :
                   \E j \in 1..Len(fetchSt.out) : fetchSt.out[j].url = fetchSt.plan[a].list[i].url
        /\ fetchSt.out = SortByPublished(DedupByUrl(ReturnedRecords))

\* C6 witness: an adapter failed, a later adapter of the array completed
\* before an earlier one, two adapters share a URL, and the call is done
C6_Witness ==
    /\ fetchSt.phase = "done"
    /\ ~fetchSt.plan["nasaAPI"].ok
    /\ fetchSt.order[1] = "seti" /\ fetchSt.order[2] = "spaceflight" /\ fetchSt.order[3] = "newsAPI"
    /\ fetchSt.plan["newsAPI"].ok /\ fetchSt.plan["spaceflight"].ok
    /\ Len(ReturnedRecords) > Len(fetchSt.out)

(***************************************************************************)
(* Pipeline claims.                                                        *)
(***************************************************************************)
StoredUrls == {articlesTbl[i].url : i \in 1..Len(articlesTbl)}

\* the run has its batch: fetchAllArticles has returned
HasFetched(r) == run[r].pc \notin {"idle", "init_select", "init_insert", "fetch"}

\* the run is inside the loop over its batch
InLoop(r) == run[r].pc \in {"src_insert", "src_select", "score", "store_select", "store_insert"}

\* C1: a collectData run that starts after another collectData run has
\* finished and fetches the same article set skips every article at the
\* existence check: it attempts no insert and inserts zero Article rows.
C1_SecondRunInsertsNothing ==
    \A r1, r2 \in Runs :
        ( /\ JobOf(r1) = "collect" /\ JobOf(r2) = "collect"
          /\ r1 \in run[r2].after
          /\ HasFetched(r2)
          /\ run[r2].batch = run[r1].batch )
        => run[r2].ins = {} /\ run[r2].tried = {}

\* C1 witness: the first run inserted two articles, the second run started
\* after it, fetched the same two articles and has finished
C1_Witness ==
    \E r1, r2 \in Runs :
        /\ JobOf(r1) = "collect" /\ JobOf(r2) = "collect"
        /\ r1 \in run[r2].after
        /\ run[r2].pc = "done"
        /\ run[r2].batch = run[r1].batch
        /\ Cardinality(run[r1].ins) = 2
        /\ Len(articlesTbl) = 2

\* C2: whatever the interleaving of overlapping collectData runs, no two
\* Article rows share a URL, and an insert the unique key rejects is benign:
\* it is of a stored URL, and the run goes on to the remaining articles, so
\* that every article before its position, and every article of a finished
\* run, is stored.
C2_DuplicateInsertIsBenign ==
    /\ \A i, j \in 1..Len(articlesTbl) : articlesTbl[i].url = articlesTbl[j].url => i = j
    /\ \A r \in Runs :
           /\ run[r].rej \subseteq StoredUrls
           /\ InLoop(r) => \A j \in 1..(run[r].k - 1) : run[r].batch[j].url \in StoredUrls
           /\ (dbAvailable /\ run[r].pc = "done") =>
                  \A j \in 1..Len(run[r].batch) : run[r].batch[j].url \in StoredUrls

\* C2 witness: two runs overlapped, one had its insert of the shared URL
\* rejected and then inserted a later article of its batch, and has finished
C2_Witness ==
    \E r, q \in Runs :
        /\ r # q /\ q \notin run[r].after /\ r \notin run[q].after
        /\ run[r].pc = "done" /\ run[q].pc = "done"
        /\ \E h, j \in 1..Len(run[r].batch) :
               /\ h < j
               /\ run[r].batch[h].url \in run[r].rej \cap run[q].ins
               /\ run[r].batch[j].url \in run[r].ins

\* C3: the sources table holds at most one row per source name.
C3_OneRowPerSourceName ==
    \A i, j \in 1..Len(sourcesTbl) : sourcesTbl[i].name = sourcesTbl[j].name => i = j

\* the documented rule list applied to title and description, computed once
PriorityCategory ==
    [t \in Titles, c \in Contents |->
        RuleCategory(PriorityRules, toLowerCase(Joined(TitleText[t], ContentText[c])))]

\* C8: every stored article has isAnalyzed = false and the category the
\* ordered rule list gives for its title and description, the country rule
\* before the trajectory rule: "China releases trajectory data" with
\* "international analysis" is stored as international_perspective.
C8_StoredCategoryFollowsRuleList ==
    \A i \in 1..Len(articlesTbl) :
        /\ articlesTbl[i].isAnalyzed = FALSE
        /\ articlesTbl[i].category = PriorityCategory[articlesTbl[i].title, articlesTbl[i].summary]
        /\ (articlesTbl[i].title = "tChina" /\ articlesTbl[i].summary = "cIntl") =>
               articlesTbl[i].category = "international_perspective"

\* C12: a failure while resolving the source, scoring or storing one
\* article is caught for that article only: the run goes on with the next
\* article, so that every article of the batch before the run's position,
\* and every article of a finished run, that no failure hit is stored.
C12_FailureIsolatedPerArticle ==
    \A r \in Runs :
        /\ InLoop(r) =>
               \A j \in 1..(run[r].k - 1) :
                   j \notin run[r].failed => run[r].batch[j].url \in StoredUrls
        /\ (dbAvailable /\ run[r].pc = "done") =>
               \A j \in 1..Len(run[r].batch) :
                   j \notin run[r].failed => run[r].batch[j].url \in StoredUrls

\* C12 witness: a finished run whose first article failed and whose second
\* article it inserted afterwards
C12_Witness ==
    \E r \in Runs :
        /\ run[r].pc = "done"
        /\ 1 \in run[r].failed
        /\ Len(run[r].batch) = 2
        /\ run[r].batch[2].url \in run[r].ins
        /\ run[r].batch[1].url \notin StoredUrls

\* tbl2 holds every row of tbl, unchanged and at its place
RowsKept(tbl, tbl2) ==
    /\ Len(tbl2) >= Len(tbl)
    /\ \A i \in 1..Len(tbl) : tbl2[i] = tbl[i]

\* C13: the pipeline only inserts: no step updates or deletes a row of the
\* articles table (a stored article keeps category, credibilityScore and
\* isAnalyzed whatever a later fetch holds for its url) or of the sources
\* table (a source keeps its prior).
C13_RowsOnlyInserted ==
    [][RowsKept(articlesTbl, articlesTbl') /\ RowsKept(sourcesTbl, sourcesTbl')]_vars

\* C13 witness: a finished run fetched a stored url with another title and
\* another description than the stored row has, and tried no insert for it
C13_Witness ==
    \E r \in Runs : \E j \in 1..Len(run[r].batch) : \E i \in 1..Len(articlesTbl) :
        /\ run[r].pc = "done"
        /\ articlesTbl[i].url = run[r].batch[j].url
        /\ articlesTbl[i].title # run[r].batch[j].title
        /\ articlesTbl[i].summary # run[r].batch[j].description
        /\ run[r].batch[j].url \notin run[r].tried
        /\ Len(sourcesTbl) >= 2

(***************************************************************************)
(* Quiet-hours window claims.                                              *)
(***************************************************************************)
\* the minutes since midnight an HH:MM text stands for
Minutes(t) ==
    ((CharCode[t[1]] - 48) * 10 + (CharCode[t[2]] - 48)) * 60
        + (CharCode[t[4]] - 48) * 10 + (CharCode[t[5]] - 48)

\* the text of the time h1h2:m1m2
HHMM(h1, h2, m1, m2) == <<h1, h2, ":", m1, m2>>

\* the last call was isWithinTimeRange(current, start, end)
TrCalled(current, start, end) ==
    tr.phase = "returned" /\ tr.current = current /\ tr.start = start /\ tr.end = end

\* C17: for HH:MM values now, start, end: if start < end, isWithinTimeRange
\* holds iff start <= now <= end; if start >= end it holds iff now >= start
\* or now <= end; both ends are inclusive.  inWindow(23:00, 22:00, 08:00),
\* inWindow(07:00, 22:00, 08:00) and inWindow(14:30, 09:00, 17:00) are true,
\* inWindow(14:00, 22:00, 08:00) is false.
C17_WindowRule ==
    /\ (tr.phase = "returned" /\ tr.start # <<>> /\ tr.end # <<>>) =>
           LET now == Minutes(tr.current)
               start == Minutes(tr.start)
               end == Minutes(tr.end)
           IN tr.out = (IF start < end THEN start <= now /\ now <= end
                                       ELSE now >= start \/ now <= end)
    /\ TrCalled(HHMM("2","3","0","0"), HHMM("2","2","0","0"), HHMM("0","8","0","0")) => tr.out
    /\ TrCalled(HHMM("0","7","0","0"), HHMM("2","2","0","0"), HHMM("0","8","0","0")) => tr.out
    /\ TrCalled(HHMM("1","4","0","0"), HHMM("2","2","0","0"), HHMM("0","8","0","0")) => ~tr.out
    /\ TrCalled(HHMM("1","4","3","0"), HHMM("0","9","0","0"), HHMM("1","7","0","0")) => tr.out

\* C17 witness: the call at the inclusive end of a window that crosses
\* midnight, 08:00 in 22:00-08:00, has returned true
C17_Witness ==
    /\ TrCalled(HHMM("0","8","0","0"), HHMM("2","2","0","0"), HHMM("0","8","0","0"))
    /\ tr.out

\* C18 as stated: with start = end the window is the single instant
\* now = start; at every other time of day the predicate is false.
C18_DegenerateWindowIsOneInstant ==
    (tr.phase = "returned" /\ tr.start # <<>> /\ tr.start = tr.end) =>
        (tr.out <=> tr.current = tr.start)

\* C18 amended: with start = end the predicate takes the crossing-midnight
\* branch and holds at every time of day.
C18_DegenerateWindowIsWholeDay ==
    (tr.phase = "returned" /\ tr.start # <<>> /\ tr.start = tr.end) => tr.out

\* C18 witness: start = end = 22:00 and the call at 14:30 has returned true
C18_Witness ==
    /\ TrCalled(HHMM("1","4","3","0"), HHMM("2","2","0","0"), HHMM("2","2","0","0"))
    /\ tr.out

(***************************************************************************)
(* Filter engine claims.                                                   *)
(***************************************************************************)
\* C14: shouldSendNotification returns true for every candidate, whatever its
\* type, category and severity, when the user has no preference record.
C14_NoPreferencesSends ==
    (gate.phase = "returned" /\ ~gate.prefs.exists) => gate.out = "true"

\* C14 witness: a call without preferences for an alert with a category and
\* a severity, made at 23:00, has returned true
C14_Witness ==
    /\ gate.phase = "returned" /\ ~gate.prefs.exists /\ gate.out = "true"
    /\ gate.payload = [type |-> "alert_triggered", category |-> "trajectory",
                       severity |-> "high"]
    /\ gate.now = [h |-> 23, m |-> 0]

\* the types that have an enable flag, and the flag of each
ToggleTypes == {"article_new", "alert_triggered", "contradiction_found", "source_update"}
FlagOf(prefs, type) ==
    CASE type = "article_new" -> prefs.enableNewArticles
      [] type = "alert_triggered" -> prefs.enableAlerts
      [] type = "contradiction_found" -> prefs.enableContradictions
      [] type = "source_update" -> prefs.enableSourceUpdates

\* the preferences with the four enable flags set
AllFlagsOn(prefs) ==
    [prefs EXCEPT !.enableNewArticles = TRUE, !.enableAlerts = TRUE,
                  !.enableContradictions = TRUE, !.enableSourceUpdates = TRUE]

\* C15: for a candidate of type article_new, alert_triggered,
\* contradiction_found or source_update, shouldSendNotification returns false
\* whenever the matching flag is false, whatever the other gates say; for the
\* types info, success, warning and error the decision is the one taken with
\* all four flags on, so the flags never change it.
C15_TypeToggles ==
    (gate.phase = "returned" /\ gate.prefs.exists) =>
        /\ (gate.payload.type \in ToggleTypes /\ ~FlagOf(gate.prefs, gate.payload.type))
               => gate.out = "false"
        /\ gate.payload.type \notin ToggleTypes =>
               gate.out = shouldSendNotification(gate.payload, AllFlagsOn(gate.prefs), gate.now)

\* every gate but the type filters lets the call through: a channel is on,
\* quiet hours are off, no allow-list is stored
OtherGatesPass(prefs) ==
    /\ prefs.enableToastNotifications /\ prefs.enableNotificationCenter
    /\ ~prefs.doNotDisturbEnabled
    /\ prefs.filterByCategory = <<>> /\ prefs.filterBySeverity = <<>>

\* C15 witness: every other gate passes, only enableSourceUpdates is off, and
\* the call for a source_update has returned false
C15_Witness ==
    /\ gate.phase = "returned" /\ gate.prefs.exists
    /\ OtherGatesPass(gate.prefs)
    /\ gate.payload.type = "source_update"
    /\ ~gate.prefs.enableSourceUpdates
    /\ gate.prefs.enableNewArticles /\ gate.prefs.enableAlerts /\ gate.prefs.enableContradictions
    /\ gate.out = "false"

\* an allow-list rejects a value: the list is configured and non-empty, the
\* value is set, and the list does not hold it
ListRejects(text, value) ==
    /\ text # <<>> /\ JSONparse(text) # <<>>
    /\ value # ""
    /\ ~arrayIncludes(JSONparse(text), value)

\* C19: with the earlier gates passing, the category gate and the severity
\* gate reject a candidate exactly when the allow-list is configured and
\* non-empty, the candidate's field is set and its value is absent from the
\* list; an absent or an empty allow-list (the text "[]") rejects nothing.
C19_AllowListGates ==
    ( /\ gate.phase = "returned" /\ gate.prefs.exists
      /\ ~ChannelsOff(gate.prefs)
      /\ ~DndRejects(gate.prefs, gate.now)
      /\ ~TypeToggleRejects(gate.payload, gate.prefs) )
    => (gate.out = "false" <=>
            \/ ListRejects(gate.prefs.filterByCategory, gate.payload.category)
            \/ ListRejects(gate.prefs.filterBySeverity, gate.payload.severity))

(***************************************************************************)
(* Notification store claims.                                              *)
(***************************************************************************)
\* the time of day t lies in the window from start to end, by the window rule
InWindow(t, start, end) ==
    LET now == t.h * 60 + t.m IN
    IF Minutes(start) < Minutes(end)
    THEN Minutes(start) <= now /\ now <= Minutes(end)
    ELSE now >= Minutes(start) \/ now <= Minutes(end)

\* quiet hours: Do Not Disturb is on, its window is configured, t is in it
QuietHours(prefs, t) ==
    /\ prefs.exists /\ prefs.doNotDisturbEnabled
    /\ prefs.doNotDisturbStart # <<>> /\ prefs.doNotDisturbEnd # <<>>
    /\ InWindow(t, prefs.doNotDisturbStart, prefs.doNotDisturbEnd)

C20_FlagsMonotonic ==
    [][ /\ Len(notifTbl') >= Len(notifTbl)
        /\ \A i \in 1..Len(notifTbl) :
               /\ notifTbl[i].isRead => notifTbl'[i].isRead
               /\ notifTbl[i].isDismissed => notifTbl'[i].isDismissed
        /\ \A i \in (Len(notifTbl) + 1)..Len(notifTbl') :
               ~notifTbl'[i].isRead /\ ~notifTbl'[i].isDismissed
        /\ \A i \in 1..Len(notifTbl) :
               /\ notifTbl[i].isRead =>
                      MarkedRead(notifTbl, notifTbl[i].id) = notifTbl
               /\ notifTbl[i].isDismissed =>
                      Dismissed(notifTbl, notifTbl[i].id) = notifTbl
      ]_vars

\* C20 witness: the first row is read and dismissed, a row created later is
\* neither
C20_Witness ==
    /\ Len(notifTbl) = 2
    /\ notifTbl[1].isRead /\ notifTbl[1].isDismissed
    /\ ~notifTbl[2].isRead /\ ~notifTbl[2].isDismissed

(***************************************************************************)
(* Claims about the calls of the notification service.                     *)
(***************************************************************************)
\* the step is a step of the call of caller c
StepOf(c) == svc'[c] # svc[c]

\* the table after the step is the table before it with one more row, the
\* row of the candidate of caller c
OneRowAdded(c) ==
    /\ Len(notifTbl') = Len(notifTbl) + 1
    /\ SubSeq(notifTbl', 1, Len(notifTbl)) = notifTbl
    /\ notifTbl'[Len(notifTbl')] = NewNotification(notifTbl, svc[c].user, svc[c].payload)

\* C21: with the store available, a createNotification call whose candidate
\* the filter engine approves inserts exactly one new row, also when an equal
\* row is stored already; a call whose candidate it rejects inserts no row
\* and returns null; and every row that is stored was approved by
\* shouldSendNotification for the preferences and the time its call read.
C21_OneRowPerApprovedCall ==
    [][ dbAvailable =>
          /\ \A c \in Callers :
                /\ (svc[c].pc = "cn_prefs" /\ StepOf(c)) =>
                      /\ notifTbl' = notifTbl
                      /\ LET prefs == getUserNotificationPreferences(dbAvailable, prefsTbl,
                                                                     svc[c].user) IN
                         IF shouldSendNotification(svc[c].payload, prefs, clock) = "true"
                         THEN svc'[c].pc = "cn_insert"
                         ELSE /\ svc'[c].pc # "cn_insert"
                              /\ svc[c].op = "create" =>
                                    svc'[c].pc = "done" /\ svc'[c].ret = "null"
                /\ (svc[c].pc = "cn_insert" /\ StepOf(c)) =>
                      /\ OneRowAdded(c)
                      /\ svc[c].op = "create" =>
                            /\ svc'[c].pc = "done" /\ svc'[c].ret = "number"
                            /\ svc'[c].retN = svc[c].user
          /\ Len(notifTbl') # Len(notifTbl) =>
                \E c \in Callers :
                    /\ svc[c].pc = "cn_insert" /\ StepOf(c) /\ OneRowAdded(c)
                    /\ shouldSendNotification(svc[c].payload, svc[c].prefs, svc[c].at) = "true"
      ]_vars

\* C21 witness: a second identical createNotification call has returned, and
\* the table holds two rows that differ in their id only
C21_Witness ==
    /\ dbAvailable
    /\ Len(notifTbl) = 2
    /\ [notifTbl[2] EXCEPT !.id = 1] = [notifTbl[1] EXCEPT !.isRead = FALSE, !.isDismissed = FALSE]
    /\ \E c \in Callers :
          /\ svc[c].pc = "done" /\ svc[c].op = "create" /\ svc[c].ret = "number"
          /\ svc[c].user = notifTbl[1].userId
          /\ svc[c].payload.type = notifTbl[1].type

\* C26: in every interleaving of concurrent updateNotificationPreferences
\* calls the store holds at most one preference row per user; a call whose
\* insert finds that another call has inserted the user's row meanwhile
\* leaves the table alone and returns false, and every call returns true or
\* false to its caller.
C26_OnePreferenceRowPerUser ==
    [][ /\ \A u \in Users : Cardinality(PrefsOfUser(prefsTbl', u)) <= 1
        /\ \A c \in Callers :
              /\ (svc[c].op = "update" /\ StepOf(c) /\ svc'[c].op = "update") =>
                    \/ svc'[c].pc \in {"up_insert", "up_update"}
                    \/ svc'[c].pc = "done" /\ svc'[c].ret \in {"true", "false"}
              /\ (svc[c].pc = "up_insert" /\ StepOf(c)
                    /\ PrefsOfUser(prefsTbl, svc[c].user) # {}) =>
                    /\ prefsTbl' = prefsTbl
                    /\ svc'[c].pc = "done" /\ svc'[c].ret = "false"
      ]_vars

\* C26 witness: two calls for the same user both found no row; one has
\* inserted and returned true, the other has returned false, and the user
\* has one row
C26_Witness ==
    /\ \A c \in Callers : svc[c].pc = "done" /\ svc[c].op = "update" /\ svc[c].user = 1
    /\ \E c, d \in Callers : svc[c].ret = "true" /\ svc[d].ret = "false"
    /\ Cardinality(PrefsOfUser(prefsTbl, 1)) = 1

\* the table holds a row of user u for the candidate
HasRowFor(u, payload) ==
    \E i \in 1..Len(notifTbl) :
        notifTbl[i].userId = u /\ notifTbl[i].type = payload.type
                               /\ notifTbl[i].category = payload.category

\* C27: when broadcastNotification has returned with the store available,
\* every user whose preferences cannot reject the candidate (a user with no
\* preference row) has a notification row for it, also a user with no
\* earlier notification.
C27_BroadcastReachesEveryUser ==
    \A c \in Callers :
        (dbAvailable /\ svc[c].pc = "done" /\ svc[c].op = "broadcast") =>
            \A u \in Users :
                PrefsOfUser(prefsTbl, u) = {} => HasRowFor(u, svc[c].payload)

\* the stored allow-list text is the JSON of a list with at least one item
NonEmptyList(text) == IsJsonArray(text) /\ JSONparse(text) # <<>>

\* C29: a row that createNotification stores for a user whose preferences,
\* as the call read them, hold a non-empty severity allow-list has a stored
\* severity that is in the allow-list, also when the candidate carried no
\* severity and the row got the default 'medium'.
C29_StoredSeverityAllowed ==
    [][ \A c \in Callers :
          (svc[c].pc = "cn_insert" /\ StepOf(c) /\ svc[c].prefs.exists
              /\ NonEmptyList(svc[c].prefs.filterBySeverity)) =>
              arrayIncludes(JSONparse(svc[c].prefs.filterBySeverity),
                            notifTbl'[Len(notifTbl')].severity)
      ]_vars

\* the stored allow-list text is there and is not the JSON of a list
InvalidText(text) == text # <<>> /\ ~IsJsonArray(text)

\* a createNotification whose read of the preferences failed goes on to the
\* insert and stores the row of its candidate
ReadFailureStores(c) ==
    /\ (svc[c].pc = "cn_prefs" /\ StepOf(c) /\ svc'[c].readFailed) =>
          svc'[c].pc = "cn_insert" /\ notifTbl' = notifTbl
    /\ (svc[c].pc = "cn_insert" /\ StepOf(c) /\ svc[c].readFailed) =>
          /\ OneRowAdded(c)
          /\ svc[c].op = "create" => svc'[c].pc = "done" /\ svc'[c].ret = "number"

\* the decision of a createNotification that has read its preferences ends
\* the call with null and stores nothing
DecisionReturnsNull(c) ==
    /\ notifTbl' = notifTbl
    /\ svc'[c].pc # "cn_insert"
    /\ svc[c].op = "create" => svc'[c].pc = "done" /\ svc'[c].ret = "null"

\* C30 as stated: a failed read of the preference record makes
\* createNotification store the notification as for a user with no record;
\* and whenever a stored allow-list text of the user is not valid JSON,
\* createNotification stores nothing and returns null.
C30_FailOpenAndInvalidTextCloses ==
    [][ \A c \in Callers :
          /\ ReadFailureStores(c)
          /\ LET prefs == getUserNotificationPreferences(dbAvailable, prefsTbl,
                                                         svc[c].user) IN
             (svc[c].pc = "cn_prefs" /\ StepOf(c) /\ ~svc'[c].readFailed
                 /\ prefs.exists
                 /\ (InvalidText(prefs.filterByCategory) \/ InvalidText(prefs.filterBySeverity))) =>
                 DecisionReturnsNull(c)
      ]_vars

\* C30, amended: a failed read of the preference record makes
\* createNotification store the notification as for a user with no record;
\* and when a stored allow-list text of the user is not valid JSON and the
\* candidate carries the field that list filters, createNotification stores
\* nothing and returns null.
C30_FailOpenAndInvalidTextClosesWhenParsed ==
    [][ \A c \in Callers :
          /\ ReadFailureStores(c)
          /\ LET prefs == getUserNotificationPreferences(dbAvailable, prefsTbl,
                                                         svc[c].user) IN
             (svc[c].pc = "cn_prefs" /\ StepOf(c) /\ ~svc'[c].readFailed
                 /\ prefs.exists
                 /\ \/ InvalidText(prefs.filterByCategory) /\ svc[c].payload.category # ""
                    \/ InvalidText(prefs.filterBySeverity) /\ svc[c].payload.severity # "") =>
                 DecisionReturnsNull(c)
      ]_vars

\* C30 witness: a createNotification whose read failed has stored its row and
\* returned the user's id, although the user's stored allow-list text is
\* invalid and the candidate carries a severity
C30_Witness ==
    \E c \in Callers :
        /\ svc[c].pc = "done" /\ svc[c].op = "create" /\ svc[c].readFailed
        /\ svc[c].ret = "number"
        /\ svc[c].payload.severity # ""
        /\ LET prefs == getUserNotificationPreferences(dbAvailable, prefsTbl,
                                                       svc[c].user) IN
           /\ prefs.exists /\ InvalidText(prefs.filterBySeverity)
           /\ shouldSendNotification(svc[c].payload, prefs, clock) = "throws"
        /\ HasRowFor(svc[c].user, svc[c].payload)

(***************************************************************************)
(* Scheduler claims.                                                       *)
(***************************************************************************)
\* C28: after stopScheduler has returned, getSchedulerStatus reports
\* isRunning = false and jobCount = 0, and no cron job and no timer that an
\* initializeScheduler call before that stop started runs its callback
\* again, for every sequence of initializeScheduler and stopScheduler calls.
C28_StopSilencesEarlierJobs ==
    [][ /\ schedCalls'.last = "stop" =>
              getSchedulerStatus(scheduledJobs') = [isRunning |-> FALSE, jobCount |-> 0]
        /\ Len(schedLog') > Len(schedLog) =>
              schedLog'[Len(schedLog')].gen > schedCalls.stoppedAt
      ]_vars

(***************************************************************************)
(* Analysis engine claims.                                                 *)
(***************************************************************************)
\* the claim with this id is stored
ClaimExists(id) == \E i \in 1..Len(claimsTbl) : claimsTbl[i].id = id

\* C22: detectContradictions creates a contradiction record exactly when the
\* store is available, both claims exist and the answer of the LLM parses
\* with isContradictory = true and a contradictionLevel other than none; it
\* returns true exactly when it created the record; in every other case (a
\* missing claim, malformed JSON, a failing LLM call, no store) it returns
\* false and creates nothing; and nothing else writes the table.
C22_ContradictionIffDetected ==
    [][ /\ (det.pc # "done" /\ det'.pc = "done") =>
              LET created == contradictionsTbl' # contradictionsTbl
                  answer == det'.answer
                  detected ==
                      /\ dbAvailable
                      /\ ClaimExists(det'.claimId1) /\ ClaimExists(det'.claimId2)
                      /\ answer.kind = "object"
                      /\ answer.isContradictory = TRUE
                      /\ answer.contradictionLevel # "none"
              IN /\ created <=> detected
                 /\ det'.ret <=> created
                 /\ created =>
                       contradictionsTbl' =
                           Append(contradictionsTbl,
                                  [claimId1 |-> det'.claimId1, claimId2 |-> det'.claimId2,
                                   contradictionLevel |-> answer.contradictionLevel,
                                   resolutionStatus |-> "unresolved"])
        /\ contradictionsTbl' # contradictionsTbl => det.pc = "llm" /\ det'.pc = "done"
      ]_vars

\* C22 witness: a call for two stored claims has returned true and its
\* record is stored
C22_Witness ==
    /\ det.pc = "done" /\ det.ret = TRUE
    /\ ClaimExists(det.claimId1) /\ ClaimExists(det.claimId2)
    /\ \E i \in 1..Len(contradictionsTbl) :
          /\ contradictionsTbl[i].claimId1 = det.claimId1
          /\ contradictionsTbl[i].claimId2 = det.claimId2
          /\ contradictionsTbl[i].contradictionLevel = det.answer.contradictionLevel

C25_NeverAnalyzed ==
    \A i \in 1..Len(articlesTbl) : ~articlesTbl[i].isAnalyzed

\* C25 witness: a stored article has claim rows and a summary from a
\* pipeline run that has returned, and a contradiction is recorded
C25_Witness ==
    /\ eng.pc = "idle"
    /\ contradictionsTbl # <<>>
    /\ \E i \in 1..Len(articlesTbl) :
          /\ ClaimsOfArticle(claimsTbl, articlesTbl[i].id) # <<>>
          /\ \E j \in 1..Len(analysisResultsTbl) :
                analysisResultsTbl[j].articleId = articlesTbl[i].id

(***************************************************************************)
(* Persistence claims.                                                     *)
(***************************************************************************)
\* C24: when the database is not available or the select of a query of
\* db.ts fails, the query returns its default (no rows) and no exception
\* reaches its caller; and without a database collectData and storeArticle
\* write nothing.
C24_StoreTroubleGivesDefaults ==
    /\ (qry.phase = "returned" /\ (~dbAvailable \/ qry.failed)) =>
          qry.outcome = "returns" /\ qry.rows = <<>>
    /\ ~dbAvailable => articlesTbl = <<>> /\ sourcesTbl = <<>>

====
